---- MODULE Spec2Model ----
(***************************************************************************)
(* Simulation core of blast-off: ColumnManager / Column / Block /          *)
(* BlockGroup / MatchDetector / GameStateManager and LevelScene.update.    *)
(*                                                                         *)
(* Numbers.  Velocities are whole px/s.  The host calls update(delta) with *)
(* delta = 1000/FrameRate ms, and positions are held in units of           *)
(* 1/FrameRate px, so that "y += velocity * deltaSeconds" is exact.        *)
(* The one division of the physics whose result is not a whole px/s (the   *)
(* size-weighted average of mergeWith) is rounded to the nearest px/s, as  *)
(* the double arithmetic rounds it to the nearest double.                  *)
(***************************************************************************)
EXTENDS Integers, Sequences, FiniteSets, TLC

\* ------------------------------------------------------------------ bounds
\* number of blocks the spawn timer feeds into one game
MaxSpawns == 2
\* number of frames of one game that are explored
MaxFrames == 120

\* blocks fed through addUnit, and frames, of the board fed through addUnit
MaxAdds == 3

MaxAddFrames == 6

\* pointer moves, and frames, of the board under the pointer
MaxMoves == 2

MaxSwapFrames == 4

\* frames of the board of full columns
MaxLoseFrames == 135

\* frames of the board of recovering blocks
MaxRecoverFrames == 6

\* frames of the board of Consumed blocks
MaxGreyFrames == 112

\* block numbers of the board of Consumed blocks
MaxGreyUnits == 4

\* frames of the board of long flights
MaxFlightFrames == 200

\* group numbers of the board of long flights
MaxFlightGroups == 4

\* frames of the boards of runs, and the largest match size compared
MaxMatchFrames == 14

MaxMatchSize == 8

\* dumps that the dump timer schedules
MaxDumps == 1

\* the largest first value and step of a random source of dump shapes
MaxDraw == 5

\* --------------------------------------------------------------- constants
FrameRate == 25
PS == FrameRate

COLUMNS == 9
ROWS == 12
ROW_HEIGHT_PX == 80
GRID_OFFSET_Y_PX == 30
ABOVE_SCREEN_PX == -50
GRAVITY == 400
BASE_GRAVITY == 150
MASS_GRAVITY_FACTOR == 75
MAX_DESCENT_VELOCITY == 70
MAX_UPWARD_VELOCITY == -700
MERGE_VELOCITY_BONUS == -650
LAUNCH_PER_BLOCK == -300
ORPHAN_VELOCITY == 300
SPAWN_Y_PX == -600
SPAWN_VELOCITY == 1000
GRACE_FRAMES == 10
GREY_RECOVERY_DELAY == 2000
SAFETY_CHECK_DELAY == 2000
SPAWN_RATE == 1000
LOSE_DELAY == 5000
GREY_INDEX == 6
SAVE_VERSION == 1

ROW_HEIGHT == ROW_HEIGHT_PX * PS
GRID_OFFSET_Y == GRID_OFFSET_Y_PX * PS
GRID_HEIGHT == ROWS * ROW_HEIGHT

PLAYABLE_COLORS == <<"RED", "YELLOW", "BLUE", "GREEN", "PURPLE">>
GREY == "GREY"

NULL == 0

\* ----------------------------------------------------------------- helpers
Abs(x) == IF x < 0 THEN -x ELSE x

Max2(a, b) == IF a > b THEN a ELSE b

\* n / d rounded to the nearest integer, halves upward (Math.round)
RoundDiv(n, d) == (2 * n + d) \div (2 * d)

Range(s) == {s[i] : i \in 1..Len(s)}

Contains(s, x) == \E i \in 1..Len(s) : s[i] = x

\* Array.indexOf: first index holding x, 0 when absent
IndexOf(s, x) == IF Contains(s, x) THEN CHOOSE i \in 1..Len(s) : s[i] = x /\ \A j \in 1..(i - 1) : s[j] # x ELSE 0

\* Array.splice(index, 1)
RemoveAt(s, i) == SubSeq(s, 1, i - 1) \o SubSeq(s, i + 1, Len(s))

RemoveFirst(s, x) == IF Contains(s, x) THEN RemoveAt(s, IndexOf(s, x)) ELSE s

\* Set.add on an insertion-ordered set
SetAdd(s, x) == IF Contains(s, x) THEN s ELSE Append(s, x)

RECURSIVE SetAddAll(_, _)
SetAddAll(s, t) == IF t = <<>> THEN s ELSE SetAddAll(SetAdd(s, Head(t)), Tail(t))

\* Array.sort((a, b) => key(a) - key(b)), stable; key is a function id -> number
RECURSIVE InsertSorted(_, _, _)
InsertSorted(s, x, key) == IF s = <<>> THEN <<x>> ELSE IF key[x] < key[Head(s)] THEN <<x>> \o s ELSE <<Head(s)>> \o InsertSorted(Tail(s), x, key)

RECURSIVE SortBy(_, _)
SortBy(s, key) == IF s = <<>> THEN <<>> ELSE InsertSorted(SortBy(SubSeq(s, 1, Len(s) - 1), key), s[Len(s)], key)

\* TRUE; the loops over the board use it so that the board of one iteration is
\* computed before the next iteration starts
Evaluated(w) == w.nextGroup = w.nextGroup

\* TRUE; the same for a list that a loop builds up
Computed(s) == Len(s) >= 0

YKey(w) == [b \in DOMAIN w.blk |-> w.blk[b].y]

\* ------------------------------------------------------------------- Block
\* greyRecoveryTimer: 0 is null, otherwise the frames left before it fires
NewBlock(column, row, y, color) == [column |-> column, row |-> row, y |-> y, color |-> color, velocityY |-> 0, isInGrid |-> FALSE, greyRecoveryTimer |-> 0, wasMovingLastFrame |-> FALSE]

SetY(w, b, y) == [w EXCEPT !.blk[b].y = y]

BlockSetVelocity(w, b, v) == [w EXCEPT !.blk[b].velocityY = v]

isGrey(w, b) == w.blk[b].color = GREY

isAboveScreen(w, b) == w.blk[b].y < ABOVE_SCREEN_PX * PS

\* Block.update: gravity on a moving block, then the move
BlockUpdate(w, b) == IF w.blk[b].velocityY # 0 THEN [w EXCEPT !.blk[b].velocityY = @ + GRAVITY \div FrameRate, !.blk[b].y = @ + (w.blk[b].velocityY + GRAVITY \div FrameRate)] ELSE w

\* ------------------------------------------------------------------ Column
getBlocksAtRest(w, c) == SelectSeq(w.columns[c], LAMBDA b : w.blk[b].velocityY = 0)

getBlockAt(w, c, y, tolerance) == LET col == w.columns[c] hit == {i \in 1..Len(col) : Abs(w.blk[col[i]].y - y) <= tolerance} IN IF hit = {} THEN NULL ELSE col[CHOOSE i \in hit : \A j \in hit : i <= j]

\* nearest at-rest block strictly below y (the first of the list on a tie)
getBlockBelow(w, c, y) == LET rest == getBlocksAtRest(w, c) below == {i \in 1..Len(rest) : w.blk[rest[i]].y > y} IN IF below = {} THEN NULL ELSE rest[CHOOSE i \in below : \A j \in below : w.blk[rest[i]].y < w.blk[rest[j]].y \/ (w.blk[rest[i]].y = w.blk[rest[j]].y /\ i <= j)]

\* nearest block strictly above y, at rest or not (the first of the list on a tie)
getBlockAbove(w, c, y) == LET col == w.columns[c] above == {i \in 1..Len(col) : w.blk[col[i]].y < y} IN IF above = {} THEN NULL ELSE col[CHOOSE i \in above : \A j \in above : w.blk[col[i]].y > w.blk[col[j]].y \/ (w.blk[col[i]].y = w.blk[col[j]].y /\ i <= j)]

\* Column.addBlock: nudge onto an overlapped block, push, sort
ColumnAddBlock(w, c, b) == LET existing == getBlockAt(w, c, w.blk[b].y, ROW_HEIGHT \div 10) w1 == IF existing # NULL /\ existing # b THEN SetY(w, b, w.blk[existing].y - ROW_HEIGHT) ELSE w IN [w1 EXCEPT !.columns[c] = SortBy(Append(w1.columns[c], b), YKey(w1))]

ColumnRemoveBlock(w, c, b) == [w EXCEPT !.columns[c] = RemoveFirst(@, b)]

\* the collision query that puts the block on the top edge of the block below
ColumnCheckCollisionOnEdge(w, c, b) == LET bottomY == GRID_OFFSET_Y + GRID_HEIGHT y == w.blk[b].y below == getBlockBelow(w, c, y) belowTop == w.blk[below].y - ROW_HEIGHT \div 2 IN IF w.blk[b].velocityY <= 0 THEN [collided |-> FALSE, restY |-> -1] ELSE IF y + ROW_HEIGHT \div 2 >= bottomY THEN [collided |-> TRUE, restY |-> bottomY - ROW_HEIGHT \div 2] ELSE IF below # NULL /\ y + ROW_HEIGHT \div 2 >= belowTop THEN [collided |-> TRUE, restY |-> belowTop] ELSE [collided |-> FALSE, restY |-> -1]

ColumnCheckCollision(w, c, b) == LET bottomY == GRID_OFFSET_Y + GRID_HEIGHT y == w.blk[b].y below == getBlockBelow(w, c, y) belowTop == w.blk[below].y - ROW_HEIGHT \div 2 IN IF w.blk[b].velocityY <= 0 THEN [collided |-> FALSE, restY |-> -1] ELSE IF y + ROW_HEIGHT \div 2 >= bottomY THEN [collided |-> TRUE, restY |-> bottomY - ROW_HEIGHT \div 2] ELSE IF below # NULL /\ y + ROW_HEIGHT \div 2 >= belowTop THEN [collided |-> TRUE, restY |-> belowTop - ROW_HEIGHT \div 2] ELSE [collided |-> FALSE, restY |-> -1]

\* ----------------------------------------------------------- ColumnManager
isValidColumn(c) == c >= 0 /\ c < COLUMNS

\* the blocks of column c as the collision query finds them
ColumnUnits(w, c) == IF isValidColumn(c) THEN [i \in 1..Len(w.columns[c]) |-> w.blk[w.columns[c][i]]] ELSE <<>>

RowOf(y) == (y - GRID_OFFSET_Y) \div ROW_HEIGHT

gridToPixelY(row) == GRID_OFFSET_Y + row * ROW_HEIGHT + ROW_HEIGHT \div 2

\* first live group holding the block, NULL when none
getBlockGroup(w, b) == LET hit == {i \in 1..Len(w.groups) : Contains(w.grp[w.groups[i]].blocks, b)} IN IF hit = {} THEN NULL ELSE w.groups[CHOOSE i \in hit : \A j \in hit : i <= j]

getMovingBlocks(w) == SelectSeq(w.blocks, LAMBDA b : w.blk[b].velocityY # 0)

\* ColumnManager.addBlock throws when it stores the block in a column that does
\* not exist: columns[column] is undefined for an index outside 0..8
AddBlockThrows(column, y, velocity) ==
  ~isValidColumn(column) /\ y >= GRID_OFFSET_Y /\ y < GRID_OFFSET_Y + GRID_HEIGHT /\ velocity = 0

\* ColumnManager.addBlock that looks at the position only
AddBlockByPosition(w, column, y, color, velocity) == LET b == Len(w.blk) + 1 inBounds == y >= GRID_OFFSET_Y /\ y < GRID_OFFSET_Y + GRID_HEIGHT w1 == [w EXCEPT !.blk = Append(@, [NewBlock(column, RowOf(y), y, color) EXCEPT !.velocityY = velocity])] w2 == IF inBounds THEN [ColumnAddBlock(w1, column, b) EXCEPT !.blk[b].isInGrid = TRUE] ELSE w1 IN [w2 EXCEPT !.blocks = Append(@, b)]

\* ColumnManager.addBlock when it returns
AddBlock(w, column, y, color, velocity) == LET b == Len(w.blk) + 1 inBounds == y >= GRID_OFFSET_Y /\ y < GRID_OFFSET_Y + GRID_HEIGHT w1 == [w EXCEPT !.blk = Append(@, [NewBlock(column, RowOf(y), y, color) EXCEPT !.velocityY = velocity])] w2 == IF inBounds /\ velocity = 0 THEN [ColumnAddBlock(w1, column, b) EXCEPT !.blk[b].isInGrid = TRUE] ELSE w1 IN [w2 EXCEPT !.blocks = Append(@, b)]

\* ColumnManager.removeBlock: out of its column, out of the block list, destroyed
RemoveBlock(w, b) == LET w1 == IF isValidColumn(w.blk[b].column) THEN ColumnRemoveBlock(w, w.blk[b].column, b) ELSE w IN [w1 EXCEPT !.blocks = RemoveFirst(@, b), !.blk[b].greyRecoveryTimer = 0]

removeBlockFromColumn(w, b) == IF isValidColumn(w.blk[b].column) THEN ColumnRemoveBlock(w, w.blk[b].column, b) ELSE w

checkCollision(w, b) == IF ~isValidColumn(w.blk[b].column) THEN [collided |-> FALSE, restY |-> -1, restColumn |-> -1] ELSE LET r == ColumnCheckCollision(w, w.blk[b].column, b) IN [collided |-> r.collided, restY |-> r.restY, restColumn |-> w.blk[b].column]

PlaceBlock(w, b, columnIndex, y) == LET w1 == IF w.blk[b].column # columnIndex THEN [(IF isValidColumn(w.blk[b].column) THEN ColumnRemoveBlock(w, w.blk[b].column, b) ELSE w) EXCEPT !.blk[b].column = columnIndex] ELSE w w2 == [w1 EXCEPT !.blk[b].y = y, !.blk[b].velocityY = 0, !.blk[b].row = RowOf(y)] IN [ColumnAddBlock(w2, columnIndex, b) EXCEPT !.blk[b].isInGrid = TRUE]

getRow(w, row) == IF row < 0 \/ row >= ROWS THEN <<>> ELSE [i \in 1..COLUMNS |-> getBlockAt(w, i - 1, gridToPixelY(row), (ROW_HEIGHT * 4) \div 10)]

checkGroupCollision(w, g1, g2) == \E i \in 1..Len(w.grp[g1].blocks), j \in 1..Len(w.grp[g2].blocks) : LET b1 == w.grp[g1].blocks[i] b2 == w.grp[g2].blocks[j] IN w.blk[b1].column = w.blk[b2].column /\ Abs(w.blk[b1].y - w.blk[b2].y) < ROW_HEIGHT

\* -------------------------------------------------------------- BlockGroup
\* new BlockGroup(blocks): velocity of the first block
NewGroup(w, members) ==
  [blocks |-> members,
   velocityY |-> IF members = <<>> THEN 0 ELSE w.blk[members[1]].velocityY,
   boostCount |-> 0, wasMovingUpward |-> FALSE, framesMovingDownward |-> 0]

GroupSize(w, g) == Len(w.grp[g].blocks)

hasBlock(w, g, b) == Contains(w.grp[g].blocks, b)

\* BlockGroup.setVelocity: the group and every block it holds
GroupSetVelocity(w, g, v) ==
  [w EXCEPT !.grp[g].velocityY = v,
            !.blk = [b \in DOMAIN w.blk |-> IF Contains(w.grp[g].blocks, b) THEN [w.blk[b] EXCEPT !.velocityY = v] ELSE w.blk[b]]]

GroupAddVelocity(w, g, dv) == GroupSetVelocity(w, g, w.grp[g].velocityY + dv)

findClosestStackPosition(w, g, b) ==
  LET same == SortBy(SelectSeq(w.grp[g].blocks, LAMBDA m : w.blk[m].column = w.blk[b].column), YKey(w))
      y == w.blk[b].y
      aboveTop == w.blk[same[1]].y - ROW_HEIGHT
      belowBottom == w.blk[same[Len(same)]].y + ROW_HEIGHT
      first == [d |-> Abs(y - aboveTop), y |-> aboveTop]
      second == IF Abs(y - belowBottom) < first.d THEN [d |-> Abs(y - belowBottom), y |-> belowBottom] ELSE first
      Gaps[i \in 0..(Len(same) - 1)] ==
        IF i = 0 THEN second
        ELSE LET prev == Gaps[i - 1]
                 inBetween == w.blk[same[i]].y + ROW_HEIGHT
             IN IF 2 * (w.blk[same[i + 1]].y - w.blk[same[i]].y) > 3 * ROW_HEIGHT /\ Abs(y - inBetween) < prev.d
                THEN [d |-> Abs(y - inBetween), y |-> inBetween] ELSE prev
  IN IF same = <<>> THEN y ELSE Gaps[Len(same) - 1].y

wouldOverlap(w, g, b, targetY) ==
  \E i \in 1..Len(w.grp[g].blocks) :
     LET m == w.grp[g].blocks[i]
     IN w.blk[m].column = w.blk[b].column /\ 10 * Abs(targetY - w.blk[m].y) < 8 * ROW_HEIGHT

\* the addition to a group that leaves the block where it is
GroupAddBlockInPlace(w, g, b, skipRepositioning) ==
  [w EXCEPT !.grp[g].blocks = SetAdd(@, b), !.blk[b].velocityY = w.grp[g].velocityY]

\* BlockGroup.addBlock
GroupAddBlock(w, g, b, skipRepositioning) ==
  LET w1 == IF skipRepositioning THEN w ELSE SetY(w, b, findClosestStackPosition(w, g, b))
  IN [w1 EXCEPT !.grp[g].blocks = SetAdd(@, b), !.blk[b].velocityY = w.grp[g].velocityY]

GroupRemoveBlock(w, g, b) == [w EXCEPT !.grp[g].blocks = RemoveFirst(@, b)]

\* snap every member to a row grid hanging from the topmost member
realignBlocks(w, g) ==
  LET ms == w.grp[g].blocks
      tops == {i \in 1..Len(ms) : \A j \in 1..Len(ms) : w.blk[ms[i]].y <= w.blk[ms[j]].y}
      referenceY == w.blk[ms[CHOOSE i \in tops : \A j \in tops : i <= j]].y
  IN IF ms = <<>> THEN w
     ELSE [w EXCEPT !.blk = [b \in DOMAIN w.blk |->
             IF Contains(ms, b)
             THEN [w.blk[b] EXCEPT !.y = referenceY + RoundDiv(w.blk[b].y - referenceY, ROW_HEIGHT) * ROW_HEIGHT]
             ELSE w.blk[b]]]

\* BlockGroup.update: group gravity, grace bookkeeping, descent clamp, rigid move
\* the group step without the cap on the descent velocity
GroupUpdateUncapped(w, g) ==
  LET G == w.grp[g]
      v1 == G.velocityY + (BASE_GRAVITY + Len(G.blocks) * MASS_GRAVITY_FACTOR) \div FrameRate
      up == IF v1 < 0 THEN TRUE ELSE G.wasMovingUpward
      frames == IF v1 < 0 THEN 0 ELSE IF v1 > 0 /\ G.wasMovingUpward THEN G.framesMovingDownward + 1 ELSE G.framesMovingDownward
      applied == IF v1 < MAX_UPWARD_VELOCITY THEN MAX_UPWARD_VELOCITY ELSE v1
  IN [w EXCEPT !.grp[g].velocityY = v1,
               !.grp[g].wasMovingUpward = up,
               !.grp[g].framesMovingDownward = frames,
               !.blk = [b \in DOMAIN w.blk |->
                  IF Contains(G.blocks, b) THEN [w.blk[b] EXCEPT !.velocityY = v1, !.y = @ + applied] ELSE w.blk[b]]]

\* the group step with the gravity of one block, whatever the size of the group
GroupUpdateMassless(w, g) ==
  LET G == w.grp[g]
      v1 == G.velocityY + (BASE_GRAVITY + MASS_GRAVITY_FACTOR) \div FrameRate
      up == IF v1 < 0 THEN TRUE ELSE G.wasMovingUpward
      frames == IF v1 < 0 THEN 0 ELSE IF v1 > 0 /\ G.wasMovingUpward THEN G.framesMovingDownward + 1 ELSE G.framesMovingDownward
      v2 == IF v1 > MAX_DESCENT_VELOCITY THEN MAX_DESCENT_VELOCITY ELSE v1
      applied == IF v2 < MAX_UPWARD_VELOCITY THEN MAX_UPWARD_VELOCITY ELSE v2
  IN [w EXCEPT !.grp[g].velocityY = v2,
               !.grp[g].wasMovingUpward = up,
               !.grp[g].framesMovingDownward = frames,
               !.blk = [b \in DOMAIN w.blk |->
                  IF Contains(G.blocks, b) THEN [w.blk[b] EXCEPT !.velocityY = v2, !.y = @ + applied] ELSE w.blk[b]]]

GroupUpdate(w, g) ==
  LET G == w.grp[g]
      v1 == G.velocityY + (BASE_GRAVITY + Len(G.blocks) * MASS_GRAVITY_FACTOR) \div FrameRate
      up == IF v1 < 0 THEN TRUE ELSE G.wasMovingUpward
      frames == IF v1 < 0 THEN 0 ELSE IF v1 > 0 /\ G.wasMovingUpward THEN G.framesMovingDownward + 1 ELSE G.framesMovingDownward
      v2 == IF v1 > MAX_DESCENT_VELOCITY THEN MAX_DESCENT_VELOCITY ELSE v1
      applied == IF v2 < MAX_UPWARD_VELOCITY THEN MAX_UPWARD_VELOCITY ELSE v2
  IN [w EXCEPT !.grp[g].velocityY = v2,
               !.grp[g].wasMovingUpward = up,
               !.grp[g].framesMovingDownward = frames,
               !.blk = [b \in DOMAIN w.blk |->
                  IF Contains(G.blocks, b) THEN [w.blk[b] EXCEPT !.velocityY = v2, !.y = @ + applied] ELSE w.blk[b]]]

isFullyAboveScreen(w, g) ==
  /\ \A i \in 1..Len(w.grp[g].blocks) : isAboveScreen(w, w.grp[g].blocks[i])
  /\ Len(w.grp[g].blocks) > 0

\* a grace period that is over as soon as the group moves downward
isInGracePeriodUpwardOnly(w, g) == w.grp[g].wasMovingUpward /\ w.grp[g].framesMovingDownward < 1

isInGracePeriod(w, g) == w.grp[g].wasMovingUpward /\ w.grp[g].framesMovingDownward < GRACE_FRAMES

\* BlockGroup.mergeWith: this group g takes the blocks of the other group o
\* mergeWith with the plain average of the two velocities instead of the size-weighted one
mergeWithPlainAverage(w, g, o) ==
  LET w1 == [w EXCEPT !.grp[g].blocks = SetAddAll(@, w.grp[o].blocks),
                      !.blk = [b \in DOMAIN w.blk |-> IF Contains(w.grp[o].blocks, b) THEN [w.blk[b] EXCEPT !.velocityY = w.grp[g].velocityY] ELSE w.blk[b]]]
      v == RoundDiv(w1.grp[g].velocityY + w1.grp[o].velocityY, 2) + MERGE_VELOCITY_BONUS
      w2 == IF Len(w1.grp[g].blocks) > 0 THEN GroupSetVelocity(w1, g, v) ELSE w1
      w3 == [w2 EXCEPT !.grp[g].boostCount = Max2(w2.grp[g].boostCount, w2.grp[o].boostCount) + 1]
  IN realignBlocks(w3, g)

mergeWith(w, g, o) ==
  LET w1 == [w EXCEPT !.grp[g].blocks = SetAddAll(@, w.grp[o].blocks),
                      !.blk = [b \in DOMAIN w.blk |-> IF Contains(w.grp[o].blocks, b) THEN [w.blk[b] EXCEPT !.velocityY = w.grp[g].velocityY] ELSE w.blk[b]]]
      totalSize == Len(w1.grp[g].blocks)
      otherSize == Len(w1.grp[o].blocks)
      thisSize == totalSize - otherSize
      v == RoundDiv(w1.grp[g].velocityY * thisSize + w1.grp[o].velocityY * otherSize, totalSize) + MERGE_VELOCITY_BONUS
      w2 == IF totalSize > 0 THEN GroupSetVelocity(w1, g, v) ELSE w1
      w3 == [w2 EXCEPT !.grp[g].boostCount = Max2(w2.grp[g].boostCount, w2.grp[o].boostCount) + 1]
  IN realignBlocks(w3, g)

\* ----------------------------------------------------------- MatchDetector
UNDEFINED == -1

ScanStart == [color |-> "null", group |-> UNDEFINED, run |-> <<>>]

\* "if (consecutiveBlocks.length >= 3) add them to matchedBlocks"
Flush(matched, run) == IF Len(run) >= 3 THEN SetAddAll(matched, run) ELSE matched

\* one row of the at-rest scan: cells is getRow(row), entries NULL or a block
RECURSIVE ScanRow(_, _, _, _, _)
ScanRow(w, cells, i, st, matched) ==
  IF Computed(matched) /\ i > Len(cells) THEN Flush(matched, st.run)
  ELSE LET b == cells[i]
       IN IF b = NULL \/ isGrey(w, b)
          THEN ScanRow(w, cells, i + 1, ScanStart, Flush(matched, st.run))
          ELSE IF w.blk[b].color = st.color /\ getBlockGroup(w, b) = st.group
               THEN ScanRow(w, cells, i + 1, [st EXCEPT !.run = Append(@, b)], matched)
               ELSE ScanRow(w, cells, i + 1, [color |-> w.blk[b].color, group |-> getBlockGroup(w, b), run |-> <<b>>], Flush(matched, st.run))

RECURSIVE detectHorizontalMatches(_, _, _)
detectHorizontalMatches(w, row, matched) ==
  IF Computed(matched) /\ row >= ROWS THEN matched
  ELSE detectHorizontalMatches(w, row + 1, ScanRow(w, getRow(w, row), 1, ScanStart, matched))

\* one column of the at-rest scan: cells is getBlocksAtRest, neighbours one row height apart (1 px)
\* the column scan that takes no account of the group of a block
RECURSIVE ScanColumnAnyGroup(_, _, _, _, _)
ScanColumnAnyGroup(w, cells, i, st, matched) ==
  IF Computed(matched) /\ i > Len(cells) THEN Flush(matched, st.run)
  ELSE LET b == cells[i]
           fresh == [color |-> w.blk[b].color, group |-> NULL, run |-> <<b>>]
       IN IF isGrey(w, b)
          THEN ScanColumnAnyGroup(w, cells, i + 1, ScanStart, Flush(matched, st.run))
          ELSE IF w.blk[b].color = st.color /\ Len(st.run) > 0 /\ Abs(w.blk[b].y - w.blk[st.run[Len(st.run)]].y - ROW_HEIGHT) <= PS
               THEN ScanColumnAnyGroup(w, cells, i + 1, [st EXCEPT !.run = Append(@, b)], matched)
               ELSE ScanColumnAnyGroup(w, cells, i + 1, fresh, Flush(matched, st.run))

RECURSIVE ScanColumn(_, _, _, _, _)
ScanColumn(w, cells, i, st, matched) ==
  IF Computed(matched) /\ i > Len(cells) THEN Flush(matched, st.run)
  ELSE LET b == cells[i]
           fresh == [color |-> w.blk[b].color, group |-> getBlockGroup(w, b), run |-> <<b>>]
       IN IF isGrey(w, b)
          THEN ScanColumn(w, cells, i + 1, ScanStart, Flush(matched, st.run))
          ELSE IF w.blk[b].color = st.color /\ getBlockGroup(w, b) = st.group /\ Len(st.run) > 0
               THEN IF Abs(w.blk[b].y - w.blk[st.run[Len(st.run)]].y - ROW_HEIGHT) <= PS
                    THEN ScanColumn(w, cells, i + 1, [st EXCEPT !.run = Append(@, b)], matched)
                    ELSE ScanColumn(w, cells, i + 1, fresh, Flush(matched, st.run))
               ELSE ScanColumn(w, cells, i + 1, fresh, Flush(matched, st.run))

RECURSIVE detectVerticalMatches(_, _, _)
detectVerticalMatches(w, col, matched) ==
  IF Computed(matched) /\ col >= COLUMNS THEN matched
  ELSE LET cells == getBlocksAtRest(w, col)
       IN detectVerticalMatches(w, col + 1, IF Len(cells) < 3 THEN matched ELSE ScanColumn(w, cells, 1, ScanStart, matched))

\* MatchDetector.detectMatches: the matched blocks, in the order they were found
detectMatches(w) == detectVerticalMatches(w, 0, detectHorizontalMatches(w, 0, <<>>))

\* upward flood fill from the matched blocks; toProcess is used as a stack
RECURSIVE FloodFill(_, _, _)
FloodFill(w, connected, toProcess) ==
  IF Computed(connected) /\ toProcess = <<>> THEN connected
  ELSE LET cur == toProcess[Len(toProcess)]
           rest == SubSeq(toProcess, 1, Len(toProcess) - 1)
           above == IF isValidColumn(w.blk[cur].column) THEN getBlockAbove(w, w.blk[cur].column, w.blk[cur].y) ELSE NULL
       IN IF above # NULL /\ ~Contains(connected, above) /\ Abs(w.blk[cur].y - w.blk[above].y - ROW_HEIGHT) <= PS
          THEN FloodFill(w, Append(connected, above), Append(rest, above))
          ELSE FloodFill(w, connected, rest)

\* the launch set without the blocks resting on the matched blocks
getConnectedBlocksMatchedOnly(w, matched) == matched

getConnectedBlocks(w, matched) == FloodFill(w, matched, matched)

\* a launch velocity that stops growing at four blocks
getLaunchVelocityCapped(matchSize, isGroupInMotion, boostCount) ==
  (IF matchSize > 4 THEN 4 ELSE matchSize) * LAUNCH_PER_BLOCK * (IF isGroupInMotion THEN 1 + 2 ^ boostCount ELSE 1)

\* the velocity Block.launch gives the block
launchVelocity(matchSize) == matchSize * LAUNCH_PER_BLOCK

\* a launch velocity that takes no account of the boost count
getLaunchVelocityUnboosted(matchSize, isGroupInMotion, boostCount) == matchSize * LAUNCH_PER_BLOCK

getLaunchVelocity(matchSize, isGroupInMotion, boostCount) ==
  IF ~isGroupInMotion THEN matchSize * LAUNCH_PER_BLOCK ELSE matchSize * LAUNCH_PER_BLOCK * (1 + 2 ^ boostCount)

\* first matched block that is in a live group decides
findExistingGroup(w, bs) ==
  LET hit == {i \in 1..Len(bs) : getBlockGroup(w, bs[i]) # NULL}
  IN IF hit = {} THEN NULL ELSE getBlockGroup(w, bs[CHOOSE i \in hit : \A j \in hit : i <= j])

\* block.setColor(GREY) on each: a pending recovery timer is removed
SetGrey(w, bs) ==
  [w EXCEPT !.blk = [b \in DOMAIN w.blk |-> IF Contains(bs, b) THEN [w.blk[b] EXCEPT !.color = GREY, !.greyRecoveryTimer = 0] ELSE w.blk[b]]]

\* the launch loop without the removal from the column
RECURSIVE LaunchAllInPlace(_, _, _, _)
LaunchAllInPlace(w, bs, i, matchSize) ==
  IF Evaluated(w) /\ i > Len(bs) THEN w
  ELSE LaunchAllInPlace([w EXCEPT !.blk[bs[i]].isInGrid = FALSE, !.blk[bs[i]].velocityY = matchSize * LAUNCH_PER_BLOCK], bs, i + 1, matchSize)

\* the launch loop of checkAndProcessMatches over allLaunchedBlocks
RECURSIVE LaunchAll(_, _, _, _)
LaunchAll(w, bs, i, matchSize) ==
  IF Evaluated(w) /\ i > Len(bs) THEN w
  ELSE LET b == bs[i]
           w1 == IF w.blk[b].isInGrid THEN removeBlockFromColumn(w, b) ELSE w
       IN LaunchAll([w1 EXCEPT !.blk[b].isInGrid = FALSE, !.blk[b].velocityY = launchVelocity(matchSize)], bs, i + 1, matchSize)

\* the match pass counting the matched blocks and leaving the board as it is
checkAndProcessMatchesCounting(w) == [w EXCEPT !.matchCount = Len(detectMatches(w))]

\* checkAndProcessMatches that also adds the number of matched blocks to the score
checkAndProcessMatchesScoring(w) ==
  LET Group(w2, launched, n) ==
        [w2 EXCEPT !.grp = (w.nextGroup :> NewGroup(w2, launched)) @@ @,
                   !.groups = Append(@, w.nextGroup),
                   !.nextGroup = w.nextGroup + 1,
                   !.matchCount = n,
                   !.blocksRemoved = @ + n]
      Boost(w1, existing, n) ==
        [GroupAddVelocity(w1, existing, getLaunchVelocity(n, FALSE, 0)) EXCEPT !.matchCount = n, !.blocksRemoved = @ + n]
      Launch(w1, launched, existing, n) ==
        IF existing # NULL THEN Boost(w1, existing, n) ELSE Group(LaunchAll(w1, launched, 1, n), launched, n)
      Process(w1, matched) ==
        Launch(w1, getConnectedBlocks(w1, matched), findExistingGroup(w1, matched), Len(matched))
      Match(matched) ==
        IF matched = <<>> THEN [w EXCEPT !.matchCount = 0] ELSE Process(SetGrey(w, matched), matched)
  IN Match(detectMatches(w))

\* MatchDetector.checkAndProcessMatches; the world afterwards, w.matchCount is the return value
checkAndProcessMatches(w) ==
  LET Group(w2, launched, n) ==
        [w2 EXCEPT !.grp = (w.nextGroup :> NewGroup(w2, launched)) @@ @,
                   !.groups = Append(@, w.nextGroup),
                   !.nextGroup = w.nextGroup + 1,
                   !.matchCount = n]
      Boost(w1, existing, n) ==
        [GroupAddVelocity(w1, existing, getLaunchVelocity(n, FALSE, 0)) EXCEPT !.matchCount = n]
      Launch(w1, launched, existing, n) ==
        IF existing # NULL THEN Boost(w1, existing, n) ELSE Group(LaunchAll(w1, launched, 1, n), launched, n)
      Process(w1, matched) ==
        Launch(w1, getConnectedBlocks(w1, matched), findExistingGroup(w1, matched), Len(matched))
      Match(matched) ==
        IF matched = <<>> THEN [w EXCEPT !.matchCount = 0] ELSE Process(SetGrey(w, matched), matched)
  IN Match(detectMatches(w))

\* --- matches inside a moving group (physical positions)
ColumnKey(w) == [b \in DOMAIN w.blk |-> w.blk[b].column]

\* cut the y-sorted blocks into row clusters: within 20 px of the first block of the cluster
RECURSIVE RowClusters(_, _, _, _)
RowClusters(w, sorted, i, acc) ==
  IF Computed(acc) /\ i > Len(sorted) THEN acc
  ELSE LET cur == acc[Len(acc)]
       IN IF Abs(w.blk[sorted[i]].y - w.blk[cur[1]].y) <= (ROW_HEIGHT \div 4)
          THEN RowClusters(w, sorted, i + 1, [acc EXCEPT ![Len(acc)] = Append(@, sorted[i])])
          ELSE RowClusters(w, sorted, i + 1, Append(acc, <<sorted[i]>>))

RECURSIVE ScanCluster(_, _, _, _, _)
ScanCluster(w, cells, i, st, matched) ==
  IF Computed(matched) /\ i > Len(cells) THEN Flush(matched, st.run)
  ELSE LET b == cells[i]
           isAdjacent == st.run = <<>> \/ w.blk[b].column = w.blk[st.run[Len(st.run)]].column + 1
       IN IF w.blk[b].color = st.color /\ isAdjacent
          THEN ScanCluster(w, cells, i + 1, [st EXCEPT !.run = Append(@, b)], matched)
          ELSE ScanCluster(w, cells, i + 1, [st EXCEPT !.color = w.blk[b].color, !.run = <<b>>], Flush(matched, st.run))

RECURSIVE ScanClusters(_, _, _, _)
ScanClusters(w, clusters, i, matched) ==
  IF Computed(matched) /\ i > Len(clusters) THEN matched
  ELSE ScanClusters(w, clusters, i + 1,
         IF Len(clusters[i]) < 3 THEN matched
         ELSE ScanCluster(w, SortBy(clusters[i], ColumnKey(w)), 1, ScanStart, matched))

detectHorizontalMatchesInBlocks(w, bs, matched) ==
  LET active == SelectSeq(bs, LAMBDA b : ~isGrey(w, b))
      sorted == SortBy(active, YKey(w))
  IN IF Len(active) < 3 THEN matched
     ELSE ScanClusters(w, RowClusters(w, sorted, 2, <<(<<sorted[1]>>)>>), 1, matched)

\* one column of a group: neighbours one row height apart within 25 %
RECURSIVE ScanGroupColumn(_, _, _, _, _)
ScanGroupColumn(w, cells, i, st, matched) ==
  IF Computed(matched) /\ i > Len(cells) THEN Flush(matched, st.run)
  ELSE LET b == cells[i]
           fresh == [st EXCEPT !.color = w.blk[b].color, !.run = <<b>>]
       IN IF w.blk[b].color = st.color /\ Len(st.run) > 0 /\ 4 * Abs(w.blk[b].y - w.blk[st.run[Len(st.run)]].y - ROW_HEIGHT) <= ROW_HEIGHT
          THEN ScanGroupColumn(w, cells, i + 1, [st EXCEPT !.run = Append(@, b)], matched)
          ELSE ScanGroupColumn(w, cells, i + 1, fresh, Flush(matched, st.run))

RECURSIVE ScanGroupColumns(_, _, _, _)
ScanGroupColumns(w, active, col, matched) ==
  IF Computed(matched) /\ col >= COLUMNS THEN matched
  ELSE LET cells == SelectSeq(active, LAMBDA b : w.blk[b].column = col)
       IN ScanGroupColumns(w, active, col + 1,
            IF Len(cells) < 3 THEN matched ELSE ScanGroupColumn(w, SortBy(cells, YKey(w)), 1, ScanStart, matched))

detectVerticalMatchesInBlocks(w, bs, matched) ==
  ScanGroupColumns(w, SelectSeq(bs, LAMBDA b : ~isGrey(w, b)), 0, matched)

\* MatchDetector.checkMatchesInGroup
checkMatchesInGroup(w, g) ==
  LET bs == w.grp[g].blocks
      matched == detectVerticalMatchesInBlocks(w, bs, detectHorizontalMatchesInBlocks(w, bs, <<>>))
      w1 == GroupAddVelocity(SetGrey(w, matched), g, getLaunchVelocity(Len(matched), TRUE, w.grp[g].boostCount))
      End(w2) ==
        [w2 EXCEPT !.boosts = Append(@, [group |-> g, matched |-> matched, groupsBefore |-> w.groups, grpBefore |-> w.grp,
                                         groupsAfter |-> w2.groups, grpAfter |-> w2.grp, blkAfter |-> w2.blk])]
  IN IF Len(bs) < 3 \/ matched = <<>> THEN w
     ELSE End([w1 EXCEPT !.grp[g].boostCount = @ + 1])

\* ------------------------------------------------------ LevelScene.update
\* the score after a failed load holds no number (undefined, then NaN)
NaN == -1

ScoreInc(x) == IF x = NaN THEN NaN ELSE x + 1

\* columnManager.removeBlock(block); this.blocksRemoved++  (the event is recorded)
DestroyAndCount(w, b, why) ==
  [RemoveBlock(w, b) EXCEPT
     !.blocksRemoved = ScoreInc(@),
     !.removals = Append(@, [block |-> b, y |-> w.blk[b].y, velocityY |-> w.blk[b].velocityY, wasLive |-> Contains(w.blocks, b), why |-> why])]

\* inner loop of the group pass: group g against every group of the snapshot
RECURSIVE MergeLoop(_, _, _, _)
MergeLoop(w, g, snapshot, j) ==
  IF Evaluated(w) /\ j > Len(snapshot) THEN w
  ELSE LET o == snapshot[j]
       IN IF o = g \/ Contains(w.groupsToRemove, o) THEN MergeLoop(w, g, snapshot, j + 1)
          ELSE IF checkGroupCollision(w, g, o)
               THEN LET Merge(w1) ==
                          [absorber |-> g, absorbed |-> o,
                           membersA |-> w.grp[g].blocks, membersB |-> w.grp[o].blocks,
                           va |-> w.grp[g].velocityY, vb |-> w.grp[o].velocityY,
                           ka |-> w.grp[g].boostCount, kb |-> w.grp[o].boostCount,
                           after |-> w1.grp[g], vMembers |-> {w1.blk[w1.grp[g].blocks[i]].velocityY : i \in 1..Len(w1.grp[g].blocks)}]
                        Absorbed(w1) == [w1 EXCEPT !.groupsToRemove = Append(@, o), !.merges = Append(@, Merge(w1))]
                    IN MergeLoop(Absorbed(mergeWith(w, g, o)), g, snapshot, j + 1)
               ELSE MergeLoop(w, g, snapshot, j + 1)

\* members that left the top while not falling are taken out of the group and destroyed
RECURSIVE InlineRemove(_, _, _, _)
InlineRemove(w, g, members, i) ==
  IF Evaluated(w) /\ i > Len(members) THEN w
  ELSE LET b == members[i]
       IN IF isAboveScreen(w, b) /\ w.blk[b].velocityY <= 0
          THEN InlineRemove(DestroyAndCount(GroupRemoveBlock(w, g, b), b, "inline"), g, members, i + 1)
          ELSE InlineRemove(w, g, members, i + 1)

\* the disband loop of update; w.disbands[k] is the record of this disband
RECURSIVE DisbandLoop(_, _, _, _)
DisbandLoop(w, members, i, k) ==
  IF Evaluated(w) /\ i > Len(members) THEN w
  ELSE LET Query(b, c) ==
             [w EXCEPT !.queries = Append(@, [block |-> b, unit |-> w.blk[b], column |-> ColumnUnits(w, w.blk[b].column), result |-> c])]
           Land(b, c) ==
             IF c.collided
             THEN DisbandLoop([PlaceBlock(Query(b, c), b, c.restColumn, c.restY) EXCEPT
                                 !.placed = Append(@, b),
                                 !.disbands[k].landed = Append(@, [block |-> b, restColumn |-> c.restColumn, restY |-> c.restY])],
                              members, i + 1, k)
             ELSE DisbandLoop(Query(b, c), members, i + 1, k)
       IN Land(members[i], checkCollision(w, members[i]))

\* the check that lets a group fall on through what it meets
shouldDisbandNever(w, g) == FALSE

shouldDisband(w, g) ==
  /\ \E i \in 1..Len(w.grp[g].blocks) : checkCollision(w, w.grp[g].blocks[i]).collided
  /\ ~isInGracePeriod(w, g)

\* the body of "for (const group of groups)" for one group
GroupStep(w, g, snapshot) ==
  IF isFullyAboveScreen(w, g) /\ w.grp[g].velocityY <= 0
  THEN [w EXCEPT !.groupsToRemove = Append(@, g)]
  ELSE LET Check(w4) ==
             [group |-> g, before |-> w.grp[g], updated |-> GroupUpdate(w, g).grp[g], checked |-> w4.grp[g],
              moved |-> {GroupUpdate(w, g).blk[b].y - w.blk[b].y : b \in Range(w.grp[g].blocks)},
              velocities |-> {GroupUpdate(w, g).blk[b].velocityY : b \in Range(w.grp[g].blocks)},
              collided |-> \E i \in 1..Len(w4.grp[g].blocks) : checkCollision(w4, w4.grp[g].blocks[i]).collided,
              disbanded |-> shouldDisband(w4, g)]
           Disband(w4) ==
             IF w4.grp[g].blocks = <<>>
             THEN [w4 EXCEPT !.groupsToRemove = Append(@, g)]
             ELSE IF shouldDisband(w4, g)
                  THEN [DisbandLoop([w4 EXCEPT !.disbands = Append(@, [group |-> g, members |-> w4.grp[g].blocks, landed |-> <<>>])],
                                    w4.grp[g].blocks, 1, Len(w4.disbands) + 1)
                          EXCEPT !.groupsToRemove = Append(@, g), !.disbanded = Append(@, g)]
                  ELSE w4
           Settle(w4) ==
             IF w4.grp[g].blocks = <<>> THEN Disband(w4) ELSE [Disband(w4) EXCEPT !.checks = Append(@, Check(w4))]
           Leave(w3) == Settle(InlineRemove(w3, g, w3.grp[g].blocks, 1))
           Collide(w1) == MergeLoop([w1 EXCEPT !.updated = Append(@, g)], g, snapshot, 1)
       IN Leave(checkMatchesInGroup(Collide(GroupUpdate(w, g)), g))

RECURSIVE GroupLoop(_, _, _)
GroupLoop(w, snapshot, i) ==
  IF Evaluated(w) /\ i > Len(snapshot) THEN w ELSE GroupLoop(GroupStep(w, snapshot[i], snapshot), snapshot, i + 1)

\* a falling block joins the first group of the snapshot with a member of its
\* column closer than two rows, unless its slot would overlap
CanJoin(w, g, b) ==
  /\ \E i \in 1..Len(w.grp[g].blocks) :
        /\ w.blk[w.grp[g].blocks[i]].column = w.blk[b].column
        /\ Abs(w.blk[b].y - w.blk[w.grp[g].blocks[i]].y) < 2 * ROW_HEIGHT
  /\ ~wouldOverlap(w, g, b, findClosestStackPosition(w, g, b))

JoinTarget(w, snapshot, b) ==
  LET hit == {i \in 1..Len(snapshot) : CanJoin(w, snapshot[i], b)}
  IN IF hit = {} THEN NULL ELSE snapshot[CHOOSE i \in hit : \A j \in hit : i <= j]

\* the body of "for (const block of movingBlocks)" for one block
FreeStep(w, b, snapshot) ==
  IF getBlockGroup(w, b) # NULL THEN w
  ELSE IF isAboveScreen(w, b) /\ w.blk[b].velocityY <= 0
       THEN [w EXCEPT !.blocksToRemove = Append(@, b)]
       ELSE LET Query(w2, r) ==
                  [w2 EXCEPT !.queries = Append(w2.queries, [block |-> b, unit |-> w2.blk[b], column |-> ColumnUnits(w2, w2.blk[b].column), result |-> r])]
                Land(w1, c) ==
                  IF c.collided
                  THEN [PlaceBlock(Query(w1, c), b, c.restColumn, c.restY) EXCEPT !.placed = Append(@, b)]
                  ELSE Query(w1, c)
                Fall(w1) == Land(w1, checkCollision(w1, b))
                Join(g) ==
                  IF g # NULL
                  THEN [GroupAddBlock(w, g, b, FALSE) EXCEPT !.joined = Append(@, [block |-> b, group |-> g, before |-> w.blk[b], live |-> Contains(w.groups, g)])]
                  ELSE Fall(BlockUpdate(w, b))
            IN Join(JoinTarget(w, snapshot, b))

RECURSIVE FreeLoop(_, _, _, _)
FreeLoop(w, moving, i, snapshot) ==
  IF Evaluated(w) /\ i > Len(moving) THEN w ELSE FreeLoop(FreeStep(w, moving[i], snapshot), moving, i + 1, snapshot)

\* blocks of one group of groupsToRemove: all of them when the group is fully
\* above the screen, else those above the screen
RECURSIVE RemoveMembers(_, _, _, _)
RemoveMembers(w, members, i, isFullyAbove) ==
  IF Evaluated(w) /\ i > Len(members) THEN w
  ELSE IF isFullyAbove \/ isAboveScreen(w, members[i])
       THEN RemoveMembers(DestroyAndCount(w, members[i], "group"), members, i + 1, isFullyAbove)
       ELSE RemoveMembers(w, members, i + 1, isFullyAbove)

RECURSIVE RemoveGroups(_, _, _)
RemoveGroups(w, gs, i) ==
  IF Evaluated(w) /\ i > Len(gs) THEN w
  ELSE RemoveGroups([RemoveMembers(w, w.grp[gs[i]].blocks, 1, isFullyAboveScreen(w, gs[i])) EXCEPT !.groups = RemoveFirst(@, gs[i])], gs, i + 1)

RECURSIVE RemoveBlocks(_, _, _)
RemoveBlocks(w, bs, i) ==
  IF Evaluated(w) /\ i > Len(bs) THEN w ELSE RemoveBlocks(DestroyAndCount(w, bs[i], "free"), bs, i + 1)

\* the safety net finding the blocks and leaving them as they are
OrphanNetIdle(w) ==
  [w EXCEPT !.orphans = SelectSeq(w.blocks, LAMBDA b : w.blk[b].velocityY = 0 /\ ~w.blk[b].isInGrid /\ getBlockGroup(w, b) = NULL)]

\* safety net: a live block with velocity 0 that is neither in the grid nor in a group falls at 300
OrphanNet(w) ==
  [w EXCEPT !.blk = [b \in DOMAIN w.blk |->
     IF Contains(w.blocks, b) /\ w.blk[b].velocityY = 0 /\ ~w.blk[b].isInGrid /\ getBlockGroup(w, b) = NULL
     THEN [w.blk[b] EXCEPT !.velocityY = ORPHAN_VELOCITY] ELSE w.blk[b]],
            !.orphans = SelectSeq(w.blocks, LAMBDA b : w.blk[b].velocityY = 0 /\ ~w.blk[b].isInGrid /\ getBlockGroup(w, b) = NULL)]

\* --------------------------------------------------------- ColorAssigner
\* consecutive non-grey blocks of the color in a row of cells, walking from index i by step
RECURSIVE CountRun(_, _, _, _, _)
CountRun(w, cells, i, step, color) ==
  IF i < 1 \/ i > Len(cells) THEN 0
  ELSE IF cells[i] # NULL /\ w.blk[cells[i]].color = color /\ ~isGrey(w, cells[i])
       THEN 1 + CountRun(w, cells, i + step, step, color)
       ELSE 0

\* the horizontal test counting the blocks on the left only
wouldCreateHorizontalMatchLeftOnly(w, column, row, color) ==
  LET rowBlocks == getRow(w, row)
  IN CountRun(w, rowBlocks, column, -1, color) + 1 >= 3

wouldCreateHorizontalMatch(w, column, row, color) ==
  LET rowBlocks == getRow(w, row)
  IN CountRun(w, rowBlocks, column, -1, color) + 1 + CountRun(w, rowBlocks, column + 2, 1, color) >= 3

RowKeyDesc(w) == [b \in DOMAIN w.blk |-> 0 - w.blk[b].row]

\* the two counting loops over the at-rest blocks sorted by descending row;
\* dir = -1 counts rows above the position, dir = 1 rows below it
RECURSIVE CountVertical(_, _, _, _, _, _, _)
CountVertical(w, sorted, i, row, color, dir, count) ==
  IF i > Len(sorted) THEN count
  ELSE LET b == sorted[i]
       IN IF (dir < 0 /\ w.blk[b].row < row) \/ (dir > 0 /\ w.blk[b].row > row)
          THEN IF w.blk[b].color = color /\ ~isGrey(w, b) /\ w.blk[b].row = row + dir * (count + 1)
               THEN CountVertical(w, sorted, i + 1, row, color, dir, count + 1)
               ELSE count
          ELSE CountVertical(w, sorted, i + 1, row, color, dir, count)

wouldCreateVerticalMatch(w, column, row, color) ==
  LET sortedBlocks == SortBy(getBlocksAtRest(w, column), RowKeyDesc(w))
  IN IF ~isValidColumn(column) THEN FALSE
     ELSE CountVertical(w, sortedBlocks, 1, row, color, -1, 0) + 1 + CountVertical(w, sortedBlocks, 1, row, color, 1, 0) >= 3

wouldCreateMatch(w, column, row, color) ==
  wouldCreateHorizontalMatch(w, column, row, color) \/ wouldCreateVerticalMatch(w, column, row, color)

getSafeColors(w, column, row) == SelectSeq(PLAYABLE_COLORS, LAMBDA c : ~wouldCreateMatch(w, column, row, c))

\* Math.floor(Math.random() * n) for the draw r
RandomIndex(r, n) == (r % n) + 1

\* Block.setColor
BlockSetColor(w, b, color) ==
  [w EXCEPT !.blk[b].color = color,
            !.blk[b].greyRecoveryTimer = IF color = GREY \/ w.blk[b].color = GREY THEN 0 ELSE @]

RECURSIVE assignColorsToBlocks(_, _, _, _)
assignColorsToBlocks(w, greyBlocks, i, r) ==
  IF Evaluated(w) /\ i > Len(greyBlocks) THEN w
  ELSE LET b == greyBlocks[i]
           safeColors == getSafeColors(w, w.blk[b].column, w.blk[b].row)
           newColor == IF Len(safeColors) > 0 THEN safeColors[RandomIndex(r[i], Len(safeColors))]
                       ELSE PLAYABLE_COLORS[RandomIndex(r[i], Len(PLAYABLE_COLORS))]
           Assigned(w1) == [w1 EXCEPT !.recolored = Append(@, b),
                                      !.recolors = Append(@, [block |-> b, safeColors |-> safeColors, blk |-> w1.blk])]
       IN assignColorsToBlocks(Assigned(BlockSetColor(w, b, newColor)), greyBlocks, i + 1, r)

\* ------------------------------------------- LevelScene: timers and update
\* a delay in ms as a number of frames
Frames(ms) == (ms * FrameRate + 999) \div 1000

\* time left on a running timer, in ms
Remaining(frames) == (frames * 1000) \div FrameRate

\* LevelScene.checkLoseCondition: the columns whose topmost at-rest block is at or above the grid top
AtRiskColumns(w) ==
  {c \in 0..(COLUMNS - 1) : getBlocksAtRest(w, c) # <<>> /\ w.blk[getBlocksAtRest(w, c)[1]].y <= GRID_OFFSET_Y}

\* the lose check that leaves the timers of the columns no longer at risk running
LoseStepKeeping(w) ==
  [w EXCEPT !.columnsAtRisk = AtRiskColumns(w),
            !.loseConditionTimers = [c \in 0..(COLUMNS - 1) |->
               IF c \in AtRiskColumns(w) /\ c \notin w.columnsAtRisk /\ w.loseConditionTimers[c] = 0 THEN Frames(LOSE_DELAY)
               ELSE w.loseConditionTimers[c]]]

\* checkLoseCondition, then a timer for each newly at-risk column without one,
\* and removal of the timers of columns no longer at risk
LoseStep(w) ==
  LET previous == w.columnsAtRisk
      atRisk == AtRiskColumns(w)
  IN [w EXCEPT !.columnsAtRisk = atRisk,
               !.loseConditionTimers = [c \in 0..(COLUMNS - 1) |->
                  IF c \in atRisk /\ c \notin previous /\ w.loseConditionTimers[c] = 0 THEN Frames(LOSE_DELAY)
                  ELSE IF c \in previous /\ c \notin atRisk THEN 0
                  ELSE w.loseConditionTimers[c]]]

\* grey recovery bookkeeping of one frame over all live blocks
GreyStep(w) ==
  [w EXCEPT !.blk = [b \in DOMAIN w.blk |->
     IF Contains(w.blocks, b) /\ w.blk[b].color = GREY
     THEN LET isAtRest == w.blk[b].velocityY = 0
              t1 == IF isAtRest /\ w.blk[b].wasMovingLastFrame /\ w.blk[b].greyRecoveryTimer = 0
                    THEN Frames(GREY_RECOVERY_DELAY) ELSE w.blk[b].greyRecoveryTimer
              t2 == IF ~isAtRest THEN 0 ELSE t1
          IN [w.blk[b] EXCEPT !.greyRecoveryTimer = t2, !.wasMovingLastFrame = ~isAtRest]
     ELSE w.blk[b]]]

\* the batch that forgets the ready blocks without giving them a color
RecoverStepForgetting(w, r) == [w EXCEPT !.blocksReadyToRecover = <<>>]

RecoverStep(w, r) ==
  IF Len(w.blocksReadyToRecover) > 0
  THEN [assignColorsToBlocks(w, w.blocksReadyToRecover, 1, r) EXCEPT !.blocksReadyToRecover = <<>>]
  ELSE w

\* LevelScene.update of one unpaused frame, in the order of the code
Update(w, r) ==
  LET Match(matched, w1) ==
        [ran |-> TRUE, matched |-> matched,
         launched |-> getConnectedBlocks(SetGrey(w, matched), matched),
         existing |-> findExistingGroup(w, matched),
         groupsBefore |-> w.groups, groupsAfter |-> w1.groups, grpAfter |-> w1.grp,
         blkAfter |-> w1.blk, columnsAfter |-> w1.columns, scoreAfter |-> w1.blocksRemoved]
      End(w5) == RecoverStep(GreyStep(OrphanNet(LoseStep(w5))), r)
      Blocks(w4) == End(RemoveBlocks(w4, w4.blocksToRemove, 1))
      Groups(w3) == Blocks(RemoveGroups(w3, w3.groupsToRemove, 1))
      Free(w2, snapshot) == Groups(FreeLoop(w2, getMovingBlocks(w2), 1, snapshot))
      Matched(w1) == Free(GroupLoop([w1 EXCEPT !.match = Match(detectMatches(w), w1)], w1.groups, 1), w1.groups)
  IN Matched(checkAndProcessMatches(w))

\* -------------------------------------------------------- GameStateManager
\* A saved game is [kind, hasBoard, board]: kind "null" is no saved state,
\* "wrapper" is { currentLevel: { levelId, boardState } } (hasBoard tells whether
\* boardState is there) and "direct" is the old format, the SaveState itself.
\* A SaveState is [hasV, hasS, hasB, s, b, g, lct]; optional fields that are
\* left out read as 0 / the empty list, as the loader reads them.
\* the color index with 5 for a Consumed block
colorIndexFive(color) == IF color = GREY THEN 5 ELSE IF Contains(PLAYABLE_COLORS, color) THEN IndexOf(PLAYABLE_COLORS, color) - 1 ELSE 0

colorIndex(color) == IF color = GREY THEN GREY_INDEX ELSE IF Contains(PLAYABLE_COLORS, color) THEN IndexOf(PLAYABLE_COLORS, color) - 1 ELSE 0

SavedBlock(w, b) ==
  [c |-> w.blk[b].column, y |-> RoundDiv(w.blk[b].y, PS), co |-> colorIndex(w.blk[b].color),
   v |-> w.blk[b].velocityY,
   rt |-> IF w.blk[b].greyRecoveryTimer # 0 THEN Remaining(w.blk[b].greyRecoveryTimer) ELSE 0]

\* indices into the block list of the members that are in it
BlockIndices(w, g) ==
  LET live == SelectSeq(w.grp[g].blocks, LAMBDA m : Contains(w.blocks, m))
  IN [i \in 1..Len(live) |-> IndexOf(w.blocks, live[i]) - 1]

SavedGroups(w) ==
  LET kept == SelectSeq(w.groups, LAMBDA g : Len(BlockIndices(w, g)) > 0)
  IN [i \in 1..Len(kept) |-> [bi |-> BlockIndices(w, kept[i]), v |-> w.grp[kept[i]].velocityY, bc |-> w.grp[kept[i]].boostCount]]

serialize(w) ==
  [kind |-> "wrapper", hasBoard |-> TRUE,
   board |-> [hasV |-> TRUE, hasS |-> TRUE, hasB |-> TRUE,
              s |-> w.blocksRemoved,
              b |-> [i \in 1..Len(w.blocks) |-> SavedBlock(w, w.blocks[i])],
              g |-> SavedGroups(w),
              lct |-> [c \in 0..(COLUMNS - 1) |-> Remaining(w.loseConditionTimers[c])]]]

\* GameStateManager.deserialize: ok is FALSE for the null result
deserialize(data) ==
  IF data.kind = "null" THEN [ok |-> FALSE, saveState |-> data.board]
  ELSE IF data.kind = "wrapper" /\ data.hasBoard THEN [ok |-> TRUE, saveState |-> data.board]
  ELSE IF data.kind = "direct" /\ data.board.hasV /\ data.board.hasS /\ data.board.hasB THEN [ok |-> TRUE, saveState |-> data.board]
  ELSE [ok |-> FALSE, saveState |-> data.board]

\* ------------------------------------------------- LevelScene: start, load
NoColumns == [c \in 0..(COLUMNS - 1) |-> <<>>]

NoTimers == [c \in 0..(COLUMNS - 1) |-> 0]

\* ColumnManager.clear / a new ColumnManager
Clear(w) == [w EXCEPT !.blk = <<>>, !.blocks = <<>>, !.columns = NoColumns, !.grp = <<>>, !.groups = <<>>]

\* populateStartingBlocks: rows 9..11 of every column, a random safe color each
RECURSIVE populateStartingBlocks(_, _, _, _)
populateStartingBlocks(w, col, row, seed) ==
  IF Evaluated(w) /\ col >= COLUMNS THEN w
  ELSE IF row >= ROWS THEN populateStartingBlocks(w, col + 1, ROWS - 3, seed)
       ELSE LET safeColors == getSafeColors(w, col, row)
                color == IF Len(safeColors) > 0 THEN safeColors[RandomIndex(seed + col, Len(safeColors))]
                         ELSE PLAYABLE_COLORS[RandomIndex(seed + col, Len(PLAYABLE_COLORS))]
            IN populateStartingBlocks(AddBlock(w, col, gridToPixelY(row), color, 0), col, row + 1, seed)

\* createGameElements: new column manager, starting blocks, spawner and safety timer started
createGameElements(w, seed) ==
  [populateStartingBlocks(Clear(w), 0, ROWS - 3, seed) EXCEPT
     !.spawnTimer = Frames(SPAWN_RATE), !.greyBlockSafetyTimer = Frames(SAFETY_CHECK_DELAY)]

\* the block loop of loadGameState
RECURSIVE LoadBlocks(_, _, _)
LoadBlocks(w, b, i) ==
  IF Evaluated(w) /\ i > Len(b) THEN w
  ELSE LET sb == b[i]
           color == IF sb.co = GREY_INDEX THEN GREY
                    ELSE IF sb.co >= 0 /\ sb.co < Len(PLAYABLE_COLORS) THEN PLAYABLE_COLORS[sb.co + 1] ELSE "RED"
           w1 == AddBlock(w, sb.c, sb.y * PS, color, sb.v)
           id == Len(w1.blk)
           w2 == IF sb.rt > 0 THEN [w1 EXCEPT !.blk[id].greyRecoveryTimer = Frames(sb.rt)]
                 ELSE IF color = GREY /\ sb.v = 0 THEN [w1 EXCEPT !.blk[id].greyRecoveryTimer = Frames(GREY_RECOVERY_DELAY)]
                 ELSE IF color = GREY /\ sb.v # 0 THEN [w1 EXCEPT !.blk[id].wasMovingLastFrame = TRUE]
                 ELSE w1
       IN LoadBlocks(w2, b, i + 1)

\* the group loop of loadGameState; created holds the blocks of the save in order
RECURSIVE LoadGroups(_, _, _, _)
LoadGroups(w, g, i, created) ==
  IF Evaluated(w) /\ i > Len(g) THEN w
  ELSE LET valid == SelectSeq(g[i].bi, LAMBDA k : k >= 0 /\ k < Len(created))
           groupBlocks == [j \in 1..Len(valid) |-> created[valid[j] + 1]]
           id == w.nextGroup
           w1 == [w EXCEPT !.grp = (id :> [NewGroup(w, SetAddAll(<<>>, groupBlocks)) EXCEPT !.boostCount = g[i].bc]) @@ @,
                           !.nextGroup = id + 1]
           w2 == [GroupSetVelocity(w1, id, g[i].v) EXCEPT !.groups = Append(@, id)]
       IN IF Len(groupBlocks) > 0 THEN LoadGroups(w2, g, i + 1, created) ELSE LoadGroups(w, g, i + 1, created)

\* loadGameState up to the block loop: spawner stopped, board cleared, score taken from the save
LoadHead(w, saveState) ==
  [Clear(w) EXCEPT !.spawnTimer = 0, !.blocksRemoved = IF saveState.hasS THEN saveState.s ELSE NaN]

\* loadGameState from the block loop on (the save has a block list)
LoadBody(w, saveState) ==
  LET w1 == LoadBlocks(w, saveState.b, 1)
      w2 == LoadGroups(w1, saveState.g, 1, w1.blocks)
  IN [w2 EXCEPT !.loseConditionTimers = [c \in 0..(COLUMNS - 1) |-> IF saveState.lct[c] > 0 THEN Frames(saveState.lct[c]) ELSE @[c]],
                !.columnsAtRisk = @ \cup {c \in 0..(COLUMNS - 1) : saveState.lct[c] > 0},
                !.spawnTimer = Frames(SPAWN_RATE)]

\* LevelScene.loadGameState when it returns normally
loadGameState(w, data) ==
  IF ~deserialize(data).ok THEN w
  ELSE LoadBody(LoadHead(w, deserialize(data).saveState), deserialize(data).saveState)

\* loadGameState throws at the block loop when the accepted save has no block list
LoadThrows(data) == deserialize(data).ok /\ ~deserialize(data).saveState.hasB

\* ------------------------------------------------------- timers of a frame
\* BlockSpawner.spawnBlock with the random column and color drawn as choice
spawnBlock(w, choice) ==
  [AddBlock(w, choice[1], SPAWN_Y_PX * PS, choice[2], SPAWN_VELOCITY) EXCEPT !.spawned = @ + 1]

\* the looping spawn timer; the feed ends after MaxSpawns blocks
SpawnTimerStep(w, choice) ==
  IF w.spawnTimer = 0 THEN w
  ELSE IF w.spawnTimer > 1 THEN [w EXCEPT !.spawnTimer = @ - 1]
  ELSE [(IF w.spawned < MaxSpawns THEN spawnBlock(w, choice) ELSE w) EXCEPT !.spawnTimer = Frames(SPAWN_RATE)]

\* the grey blocks at rest without a timer, which checkGreyBlockTimers gives one
NeedsTimer(w, b) ==
  Contains(w.blocks, b) /\ w.blk[b].color = GREY /\ w.blk[b].velocityY = 0 /\ w.blk[b].greyRecoveryTimer = 0

checkGreyBlockTimers(w) ==
  [w EXCEPT !.blk = [b \in DOMAIN w.blk |-> IF NeedsTimer(w, b) THEN [w.blk[b] EXCEPT !.greyRecoveryTimer = Frames(GREY_RECOVERY_DELAY)] ELSE w.blk[b]]]

\* the recovery timers that run out in this frame put their block on the ready list
GreyTimerStep(w) ==
  LET fired == SelectSeq(w.blocks, LAMBDA b : w.blk[b].greyRecoveryTimer = 1)
  IN [w EXCEPT !.blk = [b \in DOMAIN w.blk |-> IF w.blk[b].greyRecoveryTimer > 0 THEN [w.blk[b] EXCEPT !.greyRecoveryTimer = @ - 1] ELSE w.blk[b]],
               !.blocksReadyToRecover = @ \o fired]

\* the looping safety timer, paused while the game is over
SafetyTimerStep(w) ==
  IF w.greyBlockSafetyTimer = 0 \/ w.isPaused THEN GreyTimerStep(w)
  ELSE IF w.greyBlockSafetyTimer > 1 THEN [GreyTimerStep(w) EXCEPT !.greyBlockSafetyTimer = @ - 1]
  ELSE LET needs == {b \in DOMAIN w.blk : NeedsTimer(w, b)}
           w1 == GreyTimerStep(w)
       IN [w1 EXCEPT !.greyBlockSafetyTimer = Frames(SAFETY_CHECK_DELAY),
                     !.blk = [b \in DOMAIN w1.blk |-> IF b \in needs THEN [w1.blk[b] EXCEPT !.greyRecoveryTimer = Frames(GREY_RECOVERY_DELAY)] ELSE w1.blk[b]]]

\* triggerGameOver leaving the other countdowns running
triggerGameOverKeepingTimers(w) ==
  [w EXCEPT !.isPaused = TRUE, !.spawnTimer = 0, !.gameOvers = @ + 1]

triggerGameOver(w) ==
  [w EXCEPT !.isPaused = TRUE, !.spawnTimer = 0, !.loseConditionTimers = NoTimers, !.gameOvers = @ + 1]

\* the lose timers: the first that runs out ends the game and removes the others
LoseTimerStep(w) ==
  IF \E c \in 0..(COLUMNS - 1) : w.loseConditionTimers[c] = 1
  THEN triggerGameOver(w)
  ELSE [w EXCEPT !.loseConditionTimers = [c \in 0..(COLUMNS - 1) |-> IF @[c] > 0 THEN @[c] - 1 ELSE 0]]

\* the timer events of one frame, which run before the scene's update
ClockPhase(w, choice) == LoseTimerStep(SafetyTimerStep(SpawnTimerStep(w, choice)))

\* ----------------------------------------------------------- InputManager
\* InputManager.getBlockAtPosition for a pointer in column `column` at height y:
\* the block the grid holds in the pointer's cell, else the first block whose
\* bounds hold the pointer
getBlockAtPosition(w, column, y) ==
  LET gridBlock == IF isValidColumn(column) THEN getBlockAt(w, column, gridToPixelY(RowOf(y)), ROW_HEIGHT \div 2) ELSE NULL
      hit == {i \in 1..Len(w.blocks) : w.blk[w.blocks[i]].column = column /\ Abs(w.blk[w.blocks[i]].y - y) <= ROW_HEIGHT \div 2}
  IN IF gridBlock # NULL THEN gridBlock
     ELSE IF hit = {} THEN NULL ELSE w.blocks[CHOOSE i \in hit : \A j \in hit : i <= j]

\* InputManager.findAdjacentBlock: the closest block of the same column within
\* 1.2 rows in the direction (1 down, -1 up); for a group member only members
\* of its group count
findAdjacentBlock(w, block, direction) ==
  LET blockGroup == getBlockGroup(w, block)
      yDistance(i) == w.blk[w.blocks[i]].y - w.blk[block].y
      near == {i \in 1..Len(w.blocks) :
                 /\ w.blocks[i] # block
                 /\ w.blk[w.blocks[i]].column = w.blk[block].column
                 /\ (direction = 1 => yDistance(i) > 0)
                 /\ (direction = -1 => yDistance(i) < 0)
                 /\ Abs(yDistance(i)) <= (ROW_HEIGHT * 12) \div 10
                 /\ (blockGroup # NULL => getBlockGroup(w, w.blocks[i]) = blockGroup)}
      closest == {i \in near : \A j \in near : Abs(yDistance(i)) <= Abs(yDistance(j))}
  IN IF near = {} THEN NULL ELSE w.blocks[CHOOSE i \in closest : \A j \in closest : i <= j]

\* canSwap without the test of the vertical distance
canSwapAnyDistance(w, block, targetBlock) ==
  IF w.blk[targetBlock].column # w.blk[block].column THEN FALSE
  ELSE IF getBlockGroup(w, block) # NULL /\ getBlockGroup(w, block) = getBlockGroup(w, targetBlock) THEN TRUE
  ELSE w.blk[targetBlock].isInGrid

\* InputManager.canSwap
canSwap(w, block, targetBlock) ==
  IF Abs(w.blk[targetBlock].y - w.blk[block].y) > (ROW_HEIGHT * 13) \div 10 THEN FALSE
  ELSE IF w.blk[targetBlock].column # w.blk[block].column THEN FALSE
  ELSE IF getBlockGroup(w, block) # NULL /\ getBlockGroup(w, block) = getBlockGroup(w, targetBlock) THEN TRUE
  ELSE w.blk[targetBlock].isInGrid

\* InputManager.swapBlocks: inside a group the two blocks exchange position and
\* cell; in the grid ColumnManager.setBlock adds each block to the column of the
\* dragged block, then the blocks take the centres of each other's rows
swapBlocks(w, block, targetBlock) ==
  LET b == w.blk[block]
      t == w.blk[targetBlock]
      Moved(w2) == [w2 EXCEPT !.blk[block].row = t.row, !.blk[block].y = gridToPixelY(t.row),
                              !.blk[targetBlock].column = b.column, !.blk[targetBlock].row = b.row,
                              !.blk[targetBlock].y = gridToPixelY(b.row)]
      Second(w1) == Moved(IF isValidColumn(b.column) THEN ColumnAddBlock(w1, b.column, block) ELSE w1)
  IN IF getBlockGroup(w, block) # NULL
     THEN [w EXCEPT !.blk[block].column = t.column, !.blk[block].row = t.row, !.blk[block].y = t.y,
                    !.blk[targetBlock].column = b.column, !.blk[targetBlock].row = b.row, !.blk[targetBlock].y = b.y]
     ELSE Second(IF isValidColumn(b.column) THEN ColumnAddBlock(w, b.column, targetBlock) ELSE w)

\* the drag of the last pointer event: the block dragged, the block found next
\* to it, the pointer's offset from the dragged block, and whether they swapped
NoPointer == [selected |-> 0, target |-> 0, dy |-> 0, swapped |-> FALSE]

\* InputManager.handlePointerMove with the pointer in the column of the dragged
\* block, dy below its centre: the board, the block still dragged (0 for none),
\* and the drag
handlePointerMove(w, selected, dy) ==
  LET direction == IF dy > 0 THEN 1 ELSE -1
      adjacentBlock == findAdjacentBlock(w, selected, direction)
      crossedThreshold == IF direction > 0 THEN 2 * (w.blk[selected].y + dy) >= w.blk[selected].y + w.blk[adjacentBlock].y
                          ELSE 2 * (w.blk[selected].y + dy) <= w.blk[selected].y + w.blk[adjacentBlock].y
      Stay(target) == [w |-> w, selected |-> selected, pointer |-> [selected |-> selected, target |-> target, dy |-> dy, swapped |-> FALSE]]
      Swapped(w1) == [w |-> w1, selected |-> IF w1.blk[selected].isInGrid THEN selected ELSE 0,
                      pointer |-> [selected |-> selected, target |-> adjacentBlock, dy |-> dy, swapped |-> TRUE]]
  IN IF selected = 0 THEN [w |-> w, selected |-> 0, pointer |-> NoPointer]
     ELSE IF ~w.blk[selected].isInGrid /\ getBlockGroup(w, selected) = NULL
          THEN [w |-> w, selected |-> 0, pointer |-> [selected |-> selected, target |-> 0, dy |-> dy, swapped |-> FALSE]]
     ELSE IF Abs(dy) < ROW_HEIGHT \div 5 THEN Stay(0)
     ELSE IF adjacentBlock = NULL THEN Stay(0)
     ELSE IF crossedThreshold /\ canSwap(w, selected, adjacentBlock) THEN Swapped(swapBlocks(w, selected, adjacentBlock))
     ELSE Stay(adjacentBlock)

\* ------------------------------------------------------------ the machine
VARIABLES started, isPaused, blk, blocks, columns, grp, groups, nextGroup, blocksRemoved,
          blocksReadyToRecover, columnsAtRisk, loseConditionTimers, spawnTimer,
          greyBlockSafetyTimer, frame, spawned, added, selectedBlock, moved, ev, spawner

vars == <<started, isPaused, blk, blocks, columns, grp, groups, nextGroup, blocksRemoved,
          blocksReadyToRecover, columnsAtRisk, loseConditionTimers, spawnTimer,
          greyBlockSafetyTimer, frame, spawned, added, selectedBlock, moved, ev, spawner>>

\* no timer event (a null timer field)
NoTimer == -1

\* no dump shape (a null pendingDumpShape)
NoShape == <<>>

\* a new BlockSpawner and the scene's LFG fields before the spawner is started:
\* each timer holds the ms left until its callback, resumeCalls the ms left of
\* every delayed resume call that is scheduled, sinceLFGSpawn and lfgElapsed
\* the ms since lastLFGSpawnTime and lfgStartTime
NoSpawner ==
  [spawnTimer |-> NoTimer, spawnPaused |-> FALSE, dumpTimer |-> NoTimer, warningTimer |-> NoTimer,
   pendingDumpShape |-> NoShape, resumeCalls |-> {}, isLFGMode |-> FALSE, sinceLFGSpawn |-> 0,
   isLFGActive |-> FALSE, lfgElapsed |-> 0, dumps |-> 0, targetCount |-> 0, draws |-> <<0, 0>>]

NoMatch == [ran |-> FALSE, matched |-> <<>>, launched |-> <<>>, existing |-> NULL, groupsBefore |-> <<>>, groupsAfter |-> <<>>,
            grpAfter |-> <<>>, blkAfter |-> <<>>, columnsAfter |-> NoColumns, scoreAfter |-> 0]

\* the board with the per-frame working lists empty
Fresh(w) ==
  [w EXCEPT !.matchCount = 0, !.groupsToRemove = <<>>, !.blocksToRemove = <<>>, !.removals = <<>>,
            !.merges = <<>>, !.placed = <<>>, !.joined = <<>>, !.updated = <<>>, !.disbanded = <<>>,
            !.match = NoMatch, !.recolored = <<>>, !.recolors = <<>>, !.orphans = <<>>, !.boosts = <<>>, !.disbands = <<>>, !.checks = <<>>, !.queries = <<>>, !.gameOvers = 0]

EmptyWorld ==
  [isPaused |-> FALSE, blk |-> <<>>, blocks |-> <<>>, columns |-> NoColumns, grp |-> <<>>, groups |-> <<>>,
   nextGroup |-> 1, blocksRemoved |-> 0, blocksReadyToRecover |-> <<>>, columnsAtRisk |-> {},
   loseConditionTimers |-> NoTimers, spawnTimer |-> 0, greyBlockSafetyTimer |-> 0, spawned |-> 0,
   matchCount |-> 0, groupsToRemove |-> <<>>, blocksToRemove |-> <<>>, removals |-> <<>>,
   merges |-> <<>>, placed |-> <<>>, joined |-> <<>>, updated |-> <<>>, disbanded |-> <<>>,
   match |-> NoMatch, recolored |-> <<>>, recolors |-> <<>>, orphans |-> <<>>, boosts |-> <<>>, disbands |-> <<>>, checks |-> <<>>, queries |-> <<>>, gameOvers |-> 0]

World ==
  [EmptyWorld EXCEPT !.isPaused = isPaused, !.blk = blk, !.blocks = blocks, !.columns = columns, !.grp = grp,
     !.groups = groups, !.nextGroup = nextGroup, !.blocksRemoved = blocksRemoved,
     !.blocksReadyToRecover = blocksReadyToRecover, !.columnsAtRisk = columnsAtRisk,
     !.loseConditionTimers = loseConditionTimers, !.spawnTimer = spawnTimer,
     !.greyBlockSafetyTimer = greyBlockSafetyTimer, !.spawned = spawned]

\* the blocks, columns, groups and score of a board
Board(w) == [blocks |-> [i \in 1..Len(w.blocks) |-> w.blk[w.blocks[i]]], columns |-> w.columns,
             groups |-> [i \in 1..Len(w.groups) |-> w.grp[w.groups[i]]], blocksRemoved |-> w.blocksRemoved]

\* the arguments of the last addBlock call, whether it threw, and the block it made
NoUnit == [column |-> 0, y |-> 0, color |-> "null", velocity |-> 0, threw |-> FALSE, block |-> 0]

\* what the last step did; a load records the saved game, how loading ended and
\* the board it found
Events(kind, before, w, load) ==
  [kind |-> kind, scoreBefore |-> before.blocksRemoved, blkBefore |-> before.blk, blocksBefore |-> before.blocks,
   columnsBefore |-> before.columns, unit |-> NoUnit, pointer |-> NoPointer,
   groupsBefore |-> before.groups, grpBefore |-> before.grp, match |-> w.match, matchCount |-> w.matchCount,
   removals |-> w.removals, merges |-> w.merges, placed |-> w.placed, joined |-> w.joined,
   updated |-> w.updated, disbanded |-> w.disbanded, recolored |-> w.recolored, recolors |-> w.recolors,
   orphans |-> w.orphans, boosts |-> w.boosts, disbands |-> w.disbands, checks |-> w.checks, queries |-> w.queries, gameOvers |-> w.gameOvers,
   groupsToRemove |-> w.groupsToRemove, timersBefore |-> before.loseConditionTimers, load |-> load]

\* the next state holds the board w; groups no longer registered are dropped from the table
Becomes(w) ==
  /\ isPaused' = w.isPaused
  /\ blk' = w.blk
  /\ blocks' = w.blocks
  /\ columns' = w.columns
  /\ grp' = [g \in Range(w.groups) |-> w.grp[g]]
  /\ groups' = w.groups
  /\ nextGroup' = w.nextGroup
  /\ blocksRemoved' = w.blocksRemoved
  /\ blocksReadyToRecover' = w.blocksReadyToRecover
  /\ columnsAtRisk' = w.columnsAtRisk
  /\ loseConditionTimers' = w.loseConditionTimers
  /\ spawnTimer' = w.spawnTimer
  /\ greyBlockSafetyTimer' = w.greyBlockSafetyTimer
  /\ spawned' = w.spawned

\* ----------------------------------------------------------- saved games
SB(c, y, co, v) == [c |-> c, y |-> y, co |-> co, v |-> v, rt |-> 0]

SG(bi, v, bc) == [bi |-> bi, v |-> v, bc |-> bc]

Save(s, b, g) == [hasV |-> TRUE, hasS |-> TRUE, hasB |-> TRUE, s |-> s, b |-> b, g |-> g, lct |-> NoTimers]

Wrapped(board) == [kind |-> "wrapper", hasBoard |-> TRUE, board |-> board]

\* no saved game
NoSave == [kind |-> "null", hasBoard |-> FALSE, board |-> Save(0, <<>>, <<>>)]

\* three RED blocks at rest on the floor of column 0
SaveA == Wrapped(Save(4, <<SB(0, 790, 0, 0), SB(0, 870, 0, 0), SB(0, 950, 0, 0)>>, <<>>))

\* two groups in flight in column 0, a falling pair above three rising Consumed
\* blocks; the rising group closes the last gap, so the later group absorbs
SaveMergeLate ==
  Wrapped(Save(0, <<SB(0, 300, 2, 70), SB(0, 380, 3, 70), SB(0, 700, 6, -600), SB(0, 780, 6, -600), SB(0, 860, 6, -600)>>,
               <<SG(<<0, 1>>, 70, 0), SG(<<2, 3, 4>>, -600, 0)>>))

\* the same three pixels higher: the falling pair closes the last gap, so the earlier group absorbs
SaveMergeEarly ==
  Wrapped(Save(0, <<SB(0, 300, 2, 70), SB(0, 380, 3, 70), SB(0, 697, 6, -600), SB(0, 777, 6, -600), SB(0, 857, 6, -600)>>,
               <<SG(<<0, 1>>, 70, 0), SG(<<2, 3, 4>>, -600, 0)>>))

\* a pair that reaches its apex just under the top when the first spawned block
\* arrives, and a group rising under it
SaveApex ==
  Wrapped(Save(0, <<SB(0, 233, 2, -396), SB(0, 313, 6, -396), SB(0, 610, 6, -600), SB(0, 690, 6, -600), SB(0, 770, 6, -600)>>,
               <<SG(<<0, 1>>, -396, 0), SG(<<2, 3, 4>>, -600, 0)>>))

\* a group that sinks onto a stack of seven blocks in column 0: six members in
\* column 0 and one in column 1 level with the topmost; blocks that joined the
\* sinking group are above the top of the screen
SaveTower ==
  Wrapped(Save(0, <<SB(0, 950, 1, 0), SB(0, 870, 2, 0), SB(0, 790, 1, 0), SB(0, 710, 2, 0), SB(0, 630, 1, 0), SB(0, 550, 2, 0), SB(0, 470, 1, 0),
                    SB(0, 278, 6, 70), SB(0, 198, 6, 70), SB(0, 118, 6, 70), SB(0, 38, 3, 70), SB(0, -42, 4, 70), SB(0, -122, 3, 70), SB(1, -122, 2, 70)>>,
               <<SG(<<7, 8, 9, 10, 11, 12, 13>>, 70, 0)>>))

\* a group saved at its apex, with velocity 0
SaveStill ==
  Wrapped(Save(0, <<SB(3, 400, 2, 0), SB(3, 480, 6, 0)>>, <<SG(<<0, 1>>, 0, 1)>>))

\* a free block one frame of gravity below the apex of its flight, in column 4
SaveRising == Wrapped(Save(0, <<SB(4, 500, 1, 0 - GRAVITY \div FrameRate)>>, <<>>))

Saves == {SaveA, SaveMergeLate, SaveMergeEarly, SaveApex, SaveTower, SaveStill, SaveRising}

\* the malformed and partial saves
BadEmptyBoard == Wrapped([Save(0, <<>>, <<>>) EXCEPT !.hasV = FALSE, !.hasS = FALSE, !.hasB = FALSE])

BadNoBlocks == Wrapped([Save(7, <<>>, <<>>) EXCEPT !.hasB = FALSE])

BadNoScore == Wrapped([SaveA.board EXCEPT !.hasS = FALSE])

BadNoVersion == Wrapped([SaveA.board EXCEPT !.hasV = FALSE])

BadNoBoard == [kind |-> "wrapper", hasBoard |-> FALSE, board |-> Save(0, <<>>, <<>>)]

OldFormat == [kind |-> "direct", hasBoard |-> FALSE, board |-> SaveA.board]

Malformed == {BadEmptyBoard, BadNoBlocks, BadNoScore, BadNoVersion, BadNoBoard}

StartData == {NoSave, OldFormat} \cup Saves \cup Malformed

Seeds == {0, 1}

SpawnChoices == {<<0, "RED">>, <<1, "YELLOW">>}

NoChoice == <<0, "RED">>

RandomDraws == {0, 2}

\* every value of Math.floor(Math.random() * n) for n up to the number of playable colors
AllDraws == 0..(Len(PLAYABLE_COLORS) - 1)

\* ------------------------------------------------------------- the actions
NoLoad == [outcome |-> "none", data |-> NoSave, before |-> Board(EmptyWorld)]

NoEvents == Events("none", EmptyWorld, EmptyWorld, NoLoad)

Init ==
  /\ started = FALSE
  /\ isPaused = FALSE
  /\ blk = <<>>
  /\ blocks = <<>>
  /\ columns = NoColumns
  /\ grp = <<>>
  /\ groups = <<>>
  /\ nextGroup = 1
  /\ blocksRemoved = 0
  /\ blocksReadyToRecover = <<>>
  /\ columnsAtRisk = {}
  /\ loseConditionTimers = NoTimers
  /\ spawnTimer = 0
  /\ greyBlockSafetyTimer = 0
  /\ frame = 0
  /\ spawned = 0
  /\ added = 0
  /\ selectedBlock = 0
  /\ moved = 0
  /\ ev = NoEvents
  /\ spawner = NoSpawner

\* LevelScene.create and initializeSDK in single-player mode: the game elements are
\* created, then a saved game with a current level is loaded; if loading throws,
\* the game elements are created again
Start(dataSet) ==
  /\ ~started
  /\ \E data \in dataSet :
       LET loads == data.kind = "wrapper" /\ deserialize(data).ok /\ ~LoadThrows(data)
       IN \E seed \in (IF loads THEN {0} ELSE Seeds), seed2 \in (IF LoadThrows(data) /\ data.kind = "wrapper" THEN Seeds ELSE {0}) :
            LET outcome == IF data.kind # "wrapper" THEN "fresh"
                           ELSE IF ~deserialize(data).ok THEN "rejected"
                           ELSE IF LoadThrows(data) THEN "threw" ELSE "loaded"
                End(w0, w1) ==
                  /\ Becomes(w1)
                  /\ ev' = Events("load", EmptyWorld, w1, [outcome |-> outcome, data |-> data, before |-> Board(w0)])
                Load(w0) ==
                  End(w0, IF data.kind # "wrapper" THEN w0
                          ELSE IF LoadThrows(data) THEN createGameElements(LoadHead(w0, deserialize(data).saveState), seed2)
                          ELSE loadGameState(w0, data))
            IN Load(createGameElements(EmptyWorld, seed))
  /\ started' = TRUE
  /\ selectedBlock' = 0
  /\ UNCHANGED <<frame, added, moved, spawner>>

InitializeSDK == Start(StartData)

\* one frame: the timer events, then LevelScene.update unless the game is paused;
\* each block that recovers takes its random draw from draws
Frame(draws) ==
  /\ started
  /\ \E choice \in (IF spawnTimer = 1 /\ spawned < MaxSpawns THEN SpawnChoices ELSE {NoChoice}) :
       LET End(w2) ==
             /\ Becomes(w2)
             /\ ev' = Events("tick", World, w2, NoLoad)
             /\ selectedBlock' = IF w2.isPaused \/ w2.matchCount > 0 THEN 0 ELSE selectedBlock
           Timers(w1) ==
             \E r \in [1..(IF w1.isPaused THEN 0 ELSE Len(w1.blocksReadyToRecover)) -> draws] :
                End(IF w1.isPaused THEN w1 ELSE Update(w1, r))
       IN Timers(ClockPhase(Fresh(World), choice))
  /\ frame' = frame + 1
  /\ UNCHANGED <<started, added, moved, spawner>>

Tick == frame < MaxFrames /\ Frame(RandomDraws)

Next == InitializeSDK \/ Tick

Spec == Init /\ [][Next]_vars

\* --------------------------------------------- the board fed through addUnit
AddChoices ==
  {<<0, 950, "RED", 0>>, <<0, 940, "BLUE", 0>>, <<0, 870, "RED", 0>>, <<0, 800, "GREEN", 1000>>,
   <<9, 870, "RED", 0>>, <<-1, -600, "BLUE", 1000>>}

InitAdd ==
  /\ started = TRUE
  /\ isPaused = FALSE
  /\ blk = <<>>
  /\ blocks = <<>>
  /\ columns = NoColumns
  /\ grp = <<>>
  /\ groups = <<>>
  /\ nextGroup = 1
  /\ blocksRemoved = 0
  /\ blocksReadyToRecover = <<>>
  /\ columnsAtRisk = {}
  /\ loseConditionTimers = NoTimers
  /\ spawnTimer = 0
  /\ greyBlockSafetyTimer = 0
  /\ frame = 0
  /\ spawned = 0
  /\ added = 0
  /\ selectedBlock = 0
  /\ moved = 0
  /\ ev = NoEvents
  /\ spawner = NoSpawner

\* ColumnManager.addBlock called by the feed
AddUnit ==
  /\ started
  /\ added < MaxAdds
  /\ \E u \in AddChoices :
       LET threw == AddBlockThrows(u[1], u[2] * PS, u[4])
           End(w) ==
             /\ Becomes(w)
             /\ ev' = [Events("add", World, w, NoLoad) EXCEPT
                        !.unit = [column |-> u[1], y |-> u[2] * PS, color |-> u[3], velocity |-> u[4],
                                  threw |-> threw, block |-> IF threw THEN 0 ELSE Len(w.blk)]]
       IN End(IF threw THEN Fresh(World) ELSE AddBlock(Fresh(World), u[1], u[2] * PS, u[3], u[4]))
  /\ added' = added + 1
  /\ UNCHANGED <<started, frame, selectedBlock, moved, spawner>>

TickAdd == frame < MaxAddFrames /\ Tick

NextAdd == AddUnit \/ TickAdd

SpecAdd == InitAdd /\ [][NextAdd]_vars

\* ------------------------------------------------ the board under the pointer
\* a stack of three colours at rest in column 0, and two blocks at rest two rows
\* apart in column 1
SwapStack ==
  Wrapped(Save(0, <<SB(0, 950, 0, 0), SB(0, 870, 1, 0), SB(0, 790, 2, 0), SB(1, 950, 1, 0), SB(1, 790, 2, 0)>>, <<>>))

\* a stack in column 0 where exchanging the two upper blocks lines up three RED
SwapMatch == Wrapped(Save(0, <<SB(0, 950, 0, 0), SB(0, 870, 0, 0), SB(0, 790, 1, 0), SB(0, 710, 0, 0)>>, <<>>))

\* a rising group of two above two blocks at rest, in column 0
SwapGroup ==
  Wrapped(Save(0, <<SB(0, 950, 0, 0), SB(0, 870, 1, 0), SB(0, 700, 6, -200), SB(0, 620, 2, -200)>>, <<SG(<<2, 3>>, -200, 0)>>))

\* a group saved at its apex right above a block at rest, in column 3
SwapStill ==
  Wrapped(Save(0, <<SB(3, 950, 1, 0), SB(3, 870, 6, 0), SB(3, 790, 2, 0)>>, <<SG(<<1, 2>>, 0, 1)>>))

\* two rising groups, one right above the other, in column 5
SwapTwoGroups ==
  Wrapped(Save(0, <<SB(5, 700, 6, -200), SB(5, 620, 1, -200), SB(5, 540, 6, -200), SB(5, 460, 2, -200)>>,
               <<SG(<<0, 1>>, -200, 0), SG(<<2, 3>>, -200, 0)>>))

SwapData == {SwapStack, SwapMatch, SwapGroup, SwapStill, SwapTwoGroups}

\* the pointer's distance below the centre of the dragged block, in pixels
PointerOffsets == {-60, 10, 30, 60}

StartSwap == Start(SwapData)

\* InputManager.handlePointerDown with the pointer on the centre of a block
PointerDown ==
  /\ started
  /\ ~isPaused
  /\ \E b \in Range(blocks) :
       LET clickedBlock == getBlockAtPosition(World, blk[b].column, blk[b].y)
       IN /\ selectedBlock' = IF clickedBlock # NULL /\ (blk[clickedBlock].isInGrid \/ getBlockGroup(World, clickedBlock) # NULL)
                              THEN clickedBlock ELSE selectedBlock
          /\ selectedBlock' # selectedBlock
          /\ ev' = [Events("down", World, Fresh(World), NoLoad) EXCEPT !.pointer = [NoPointer EXCEPT !.selected = selectedBlock']]
  /\ UNCHANGED <<started, isPaused, blk, blocks, columns, grp, groups, nextGroup, blocksRemoved,
                 blocksReadyToRecover, columnsAtRisk, loseConditionTimers, spawnTimer,
                 greyBlockSafetyTimer, frame, spawned, added, moved, spawner>>

\* InputManager.handlePointerMove while a block is dragged
PointerMove ==
  /\ started
  /\ ~isPaused
  /\ selectedBlock # 0
  /\ moved < MaxMoves
  /\ \E dy \in PointerOffsets :
       LET End(r) ==
             /\ Becomes(r.w)
             /\ selectedBlock' = r.selected
             /\ ev' = [Events("move", World, r.w, NoLoad) EXCEPT !.pointer = r.pointer]
       IN End(handlePointerMove(Fresh(World), selectedBlock, dy * PS))
  /\ moved' = moved + 1
  /\ UNCHANGED <<started, frame, added, spawner>>

\* InputManager.handlePointerUp while a block is dragged
PointerUp ==
  /\ started
  /\ ~isPaused
  /\ selectedBlock # 0
  /\ selectedBlock' = 0
  /\ ev' = Events("up", World, Fresh(World), NoLoad)
  /\ UNCHANGED <<started, isPaused, blk, blocks, columns, grp, groups, nextGroup, blocksRemoved,
                 blocksReadyToRecover, columnsAtRisk, loseConditionTimers, spawnTimer,
                 greyBlockSafetyTimer, frame, spawned, added, moved, spawner>>

TickSwap == frame < MaxSwapFrames /\ Tick

NextSwap == StartSwap \/ PointerDown \/ PointerMove \/ PointerUp \/ TickSwap

SpecSwap == Init /\ [][NextSwap]_vars

\* --------------------------------------------- the board of recovering blocks
\* a Consumed block about to recover on top of two RED blocks, in column 0
RecoverBelow == Wrapped(Save(0, <<SB(0, 950, 0, 0), SB(0, 870, 0, 0), [SB(0, 790, 6, 0) EXCEPT !.rt = 80]>>, <<>>))

\* a Consumed block about to recover under two RED blocks, in column 0
RecoverAbove == Wrapped(Save(0, <<[SB(0, 950, 6, 0) EXCEPT !.rt = 80], SB(0, 870, 0, 0), SB(0, 790, 0, 0)>>, <<>>))

\* a Consumed block about to recover in row 9 of column 1, with RED on its left
\* and on its right and a RED block two rows below it
RecoverBetween ==
  Wrapped(Save(0, <<SB(0, 950, 2, 0), SB(0, 870, 3, 0), SB(0, 790, 0, 0),
                    SB(1, 950, 0, 0), SB(1, 870, 1, 0), [SB(1, 790, 6, 0) EXCEPT !.rt = 80],
                    SB(2, 950, 2, 0), SB(2, 870, 3, 0), SB(2, 790, 0, 0)>>, <<>>))

\* two Consumed blocks about to recover side by side between two RED blocks, on the floor
RecoverPair ==
  Wrapped(Save(0, <<SB(3, 950, 0, 0), [SB(4, 950, 6, 0) EXCEPT !.rt = 80], [SB(5, 950, 6, 0) EXCEPT !.rt = 80], SB(6, 950, 0, 0)>>, <<>>))

RecoverData == {RecoverBelow, RecoverAbove, RecoverBetween, RecoverPair}

StartRecover == Start(RecoverData)

TickRecover == frame < MaxRecoverFrames /\ Frame(AllDraws)

NextRecover == StartRecover \/ TickRecover

SpecRecover == Init /\ [][NextRecover]_vars

\* ------------------------------------------------- the board of full columns
\* twelve blocks at rest in column c from the floor to row 0, of colors a and b in turn
Tower(c, a, b) == [i \in 1..ROWS |-> SB(c, 950 - ROW_HEIGHT_PX * (i - 1), IF i % 2 = 1 THEN a ELSE b, 0)]

\* a full column 0 and a block falling onto it from above the board
LoseOne == Wrapped(Save(0, Tower(0, 0, 1) \o <<SB(0, -30, 4, 70)>>, <<>>))

\* full columns 0 and 1 and a block falling onto each, side by side
LoseTwo == Wrapped(Save(0, Tower(0, 0, 1) \o Tower(1, 2, 3) \o <<SB(0, -30, 4, 70), SB(1, -30, 4, 70)>>, <<>>))

\* a full column 0 with a thirteenth block at rest on it, saved 2000 ms before
\* the countdown of the column runs out
LoseSaved == Wrapped([Save(0, Tower(0, 0, 1) \o <<SB(0, -10, 4, 0)>>, <<>>) EXCEPT !.lct[0] = 2000])

LoseData == {LoseOne, LoseTwo, LoseSaved}

StartLose == Start(LoseData)

TickLose == frame < MaxLoseFrames /\ Frame(RandomDraws)

NextLose == StartLose \/ TickLose

SpecLose == Init /\ [][NextLose]_vars

\* --------------------------------------------- the board of Consumed blocks
\* a Consumed block falling to the floor of column 0
GreyFalling == Wrapped(Save(0, <<SB(0, 790, 6, 70)>>, <<>>))

\* a Consumed block at rest on the floor, saved without a recovery timer
GreyIdle == Wrapped(Save(0, <<SB(2, 950, 6, 0), SB(3, 950, 1, 0)>>, <<>>))

\* a Consumed block at rest with 400 ms left on its recovery timer
GreyTimed == Wrapped(Save(0, <<[SB(4, 950, 6, 0) EXCEPT !.rt = 400], SB(4, 870, 2, 0)>>, <<>>))

\* a group of two Consumed blocks coming down side by side onto the floor
GreyGroup == Wrapped(Save(0, <<SB(5, 860, 6, 70), SB(6, 860, 6, 70)>>, <<SG(<<0, 1>>, 70, 0)>>))

GreyData == {GreyFalling, GreyIdle, GreyTimed, GreyGroup}

StartGrey == Start(GreyData)

TickGrey == frame < MaxGreyFrames /\ Frame(RandomDraws)

NextGrey == StartGrey \/ TickGrey

SpecGrey == Init /\ [][NextGrey]_vars

\* the step of the scene's clock to the next frame, which TickGrey takes
GreyFrame == started /\ frame < MaxGreyFrames /\ frame' = frame + 1

\* the scene's update runs every frame: the frames follow one another
SpecGreyLive == SpecGrey /\ WF_frame(GreyFrame)

\* ------------------------------------------------ the board of long flights
\* groups followed from their start to their end: a launch off the floor, a
\* pair coming down, two groups that merge, a group at its apex
FlightData == {SaveA, GreyGroup, SaveMergeLate, SaveStill}

StartFlight == Start(FlightData)

TickFlight == frame < MaxFlightFrames /\ Frame(RandomDraws)

NextFlight == StartFlight \/ TickFlight

SpecFlight == Init /\ [][NextFlight]_vars

\* the step of the scene's clock to the next frame, which TickFlight takes
FlightFrame == started /\ frame < MaxFlightFrames /\ frame' = frame + 1

\* the scene's update runs every frame: the frames follow one another
SpecFlightLive == SpecFlight /\ WF_frame(FlightFrame)

\* ---------------------------------------------------- the board of runs
\* Row(r, colors): blocks at rest in row r, one per column from column 0 on;
\* a color of -1 leaves the cell empty
Row(r, colors) ==
  LET cells == {i \in 1..Len(colors) : colors[i] >= 0}
      Nth(k) == CHOOSE i \in cells : Cardinality({j \in cells : j < i}) = k - 1
  IN [k \in 1..Cardinality(cells) |-> SB(Nth(k) - 1, 950 - ROW_HEIGHT_PX * (11 - r), colors[Nth(k)], 0)]

\* horizontal runs of three, four and five on the floor
MatchThree == Wrapped(Save(0, Row(11, <<0, 0, 0, 1>>), <<>>))

MatchFour == Wrapped(Save(0, Row(11, <<1, 2, 2, 2, 2>>), <<>>))

MatchFive == Wrapped(Save(0, Row(11, <<0, 0, 0, 0, 0, 1>>), <<>>))

\* a horizontal and a vertical run of RED that share the block of column 0
MatchCorner == Wrapped(Save(0, Row(11, <<0, 0, 0, 1>>) \o Row(10, <<0, 1>>) \o Row(9, <<0>>), <<>>))

\* a group in flight over column 2: three RED blocks on a Consumed block
MatchInGroup(boost) ==
  Wrapped(Save(0, <<SB(2, 300, 0, -200), SB(2, 380, 0, -200), SB(2, 460, 0, -200), SB(2, 540, 6, -200)>>,
               <<SG(<<0, 1, 2, 3>>, -200, boost)>>))

\* a Consumed block at rest on the left end of a run of three RED blocks, its
\* recovery timer with rt ms left
MatchUnderGrey(rt) == Wrapped(Save(0, Row(11, <<0, 0, 0>>) \o <<[SB(0, 870, 6, 0) EXCEPT !.rt = rt]>>, <<>>))

\* rows of RED with a Consumed block, an empty cell or a BLUE block in the middle
MatchBroken(by) == Wrapped(Save(0, Row(11, <<0, 0, by, 0, 0>>), <<>>))

\* column 0 from the floor up: two RED, a Consumed block, three RED
MatchBrokenStack ==
  Wrapped(Save(0, Row(11, <<0>>) \o Row(10, <<0>>) \o Row(9, <<6>>) \o Row(8, <<0>>) \o Row(7, <<0>>) \o Row(6, <<0>>), <<>>))

\* two runs of three side by side
MatchTwoRuns == Wrapped(Save(0, Row(11, <<0, 0, 0, 1, 1, 1>>), <<>>))

\* column 3: a RED block at rest under a group of two RED blocks saved at its apex
MatchMixedColumn ==
  Wrapped(Save(0, <<SB(3, 950, 0, 0), SB(3, 870, 0, 0), SB(3, 790, 0, 0)>>, <<SG(<<1, 2>>, 0, 1)>>))

\* row 11: RED blocks at rest in columns 0 and 1, and in column 2 a group saved
\* at its apex: a RED block with a BLUE block on it
MatchMixedRow ==
  Wrapped(Save(0, <<SB(0, 950, 0, 0), SB(1, 950, 0, 0), SB(2, 950, 0, 0), SB(2, 870, 2, 0)>>, <<SG(<<2, 3>>, 0, 1)>>))

\* column 4: a RED block at rest, and 1 px above its top a group of two rising at v
MatchGrace(v) ==
  Wrapped(Save(0, <<SB(4, 950, 0, 0), SB(4, 869, 1, v), SB(4, 789, 6, v)>>, <<SG(<<1, 2>>, v, 0)>>))

\* a run of three RED in row 10 on blocks of three colors; a PURPLE block rests
\* on the run in column 0, and over column 1 a block is at rest one empty cell
\* above the run
MatchLaunch ==
  Wrapped(Save(0, Row(11, <<2, 1, 3>>) \o Row(10, <<0, 0, 0>>) \o Row(9, <<4>>) \o Row(8, <<-1, 1>>), <<>>))

MatchData ==
  {MatchLaunch, MatchGrace(-24), MatchGrace(12), MatchMixedColumn, MatchMixedRow, MatchThree, MatchFour, MatchFive, MatchCorner, MatchInGroup(0), MatchInGroup(1), MatchInGroup(2),
   MatchUnderGrey(40), MatchUnderGrey(80), MatchBroken(6), MatchBroken(-1), MatchBroken(2), MatchBrokenStack, MatchTwoRuns}

StartMatch == Start(MatchData)

TickMatch == frame < MaxMatchFrames /\ Frame(RandomDraws)

NextMatch == StartMatch \/ TickMatch

SpecMatch == Init /\ [][NextMatch]_vars

\* ------------------------------------------------------------- properties
\* the number of places that hold block b: entries of the columns, and live groups
ColumnEntries(b) == Cardinality(UNION {{<<c, i>> : i \in {j \in 1..Len(columns[c]) : columns[c][j] = b}} : c \in 0..(COLUMNS - 1)})

GroupsOf(b) == Cardinality({i \in 1..Len(groups) : Contains(grp[groups[i]].blocks, b)})

\* C1: at the end of every tick and after a load, every live block is stored in
\* one column once, or is a member of one live group, or is in neither; never
\* in a column and a group, in two groups, or twice in the columns.
C1_Partition == started => \A b \in Range(blocks) : ColumnEntries(b) + GroupsOf(b) <= 1

\* C2: after every sequence of addUnit calls and ticks, the blocks of every
\* column have strictly increasing y in list order and neighbours are at least
\* one row height minus the tolerance apart.
C2_ColumnSpacing ==
  \A c \in 0..(COLUMNS - 1) : \A i \in 1..(Len(columns[c]) - 1) :
     blk[columns[c][i + 1]].y - blk[columns[c][i]].y >= ROW_HEIGHT - ROW_HEIGHT \div 10

\* C3: when the group pass of a tick finds two live groups colliding, exactly
\* one group of the pair is live at the end of the tick and it holds every
\* surviving member of both.
C3_MergeOutcome ==
  \A i \in DOMAIN ev.merges :
     LET m == ev.merges[i]
         pair == {m.absorber, m.absorbed} \cap Range(groups)
         survivors == (Range(m.membersA) \cup Range(m.membersB)) \cap Range(blocks)
     IN /\ Cardinality(pair) = 1
        /\ \A g \in pair : survivors \subseteq Range(grp[g].blocks)

\* C4: mergeWith of disjoint groups A (a members, velocity va, boost ka) and B
\* (b, vb, kb) leaves A with the a + b members, the velocity
\* (va * a + vb * b) / (a + b) - 650 (to the nearest whole px/s, the unit of the
\* model's velocities) on the group and on every member, and boost max(ka, kb) + 1.
C4_MergeWith ==
  \A i \in DOMAIN ev.merges :
     LET m == ev.merges[i]
         a == Len(m.membersA)
         b == Len(m.membersB)
     IN Range(m.membersA) \cap Range(m.membersB) = {} =>
          /\ Len(m.after.blocks) = a + b
          /\ Range(m.after.blocks) = Range(m.membersA) \cup Range(m.membersB)
          /\ 2 * Abs((a + b) * (m.after.velocityY + 650) - (m.va * a + m.vb * b)) <= a + b
          /\ m.vMembers = {m.after.velocityY}
          /\ m.after.boostCount = Max2(m.ka, m.kb) + 1

\* a merge of two disjoint groups of different sizes and velocities has just happened
C4_Witness ==
  \E i \in DOMAIN ev.merges :
     /\ Range(ev.merges[i].membersA) \cap Range(ev.merges[i].membersB) = {}
     /\ Len(ev.merges[i].membersA) # Len(ev.merges[i].membersB)
     /\ ev.merges[i].va # ev.merges[i].vb

\* the match pass of the last tick found a match and none of its blocks was in a group
FreshMatch ==
  /\ ev.kind = "tick"
  /\ Len(ev.match.matched) > 0
  /\ \A i \in 1..Len(ev.match.matched) : \A j \in 1..Len(ev.groupsBefore) :
        ~Contains(ev.grpBefore[ev.groupsBefore[j]].blocks, ev.match.matched[i])

\* C5: when the at-rest match pass finds matches and no matched block is in a
\* group, after the pass every matched block is Consumed, no block of the launch
\* set is in a column, and there is exactly one new group, which holds the
\* launch set and has velocity -300 * n for the n matched blocks.
C5_GroupFormation ==
  FreshMatch =>
    LET m == ev.match
        g == m.groupsAfter[Len(m.groupsAfter)]
    IN /\ \A i \in 1..Len(m.matched) : m.blkAfter[m.matched[i]].color = GREY
       /\ Range(m.matched) \subseteq Range(m.launched)
       /\ \A c \in 0..(COLUMNS - 1) : Range(m.columnsAfter[c]) \cap Range(m.launched) = {}
       /\ Len(m.groupsAfter) = Len(m.groupsBefore) + 1
       /\ SubSeq(m.groupsAfter, 1, Len(m.groupsBefore)) = m.groupsBefore
       /\ g \notin Range(m.groupsBefore)
       /\ Range(m.grpAfter[g].blocks) = Range(m.launched)
       /\ m.grpAfter[g].velocityY = 0 - 300 * Len(m.matched)
       /\ \A b \in Range(m.launched) : m.blkAfter[b].velocityY = 0 - 300 * Len(m.matched)

\* three blocks have just matched and were launched as a new group at -900
C5_Witness ==
  /\ FreshMatch
  /\ Len(ev.match.matched) = 3
  /\ Len(ev.match.groupsAfter) = Len(ev.match.groupsBefore) + 1
  /\ ev.match.grpAfter[ev.match.groupsAfter[Len(ev.match.groupsAfter)]].velocityY = -900

C7_ScoreExactness ==
  (ev.kind = "tick" /\ ev.scoreBefore # NaN) =>
     blocksRemoved - ev.scoreBefore = Cardinality(Range(ev.blocksBefore) \ Range(blocks))

\* C8: a tick destroys a block only if the block is above the top of the screen
\* and not moving down, and never a block at rest in a column.
C8_RemovalNotFalling ==
  \A i \in DOMAIN ev.removals :
     LET r == ev.removals[i]
     IN r.wasLive =>
          /\ r.y < ABOVE_SCREEN_PX * PS
          /\ r.velocityY <= 0
          /\ ~(r.velocityY = 0 /\ blk[r.block].isInGrid)

\* C11: addBlock with a column index outside 0..8 does not throw and changes
\* nothing: the block list, the columns and the groups are what they were.
C11_InvalidColumn ==
  (ev.kind = "add" /\ ~isValidColumn(ev.unit.column)) =>
     /\ ~ev.unit.threw
     /\ blocks = ev.blocksBefore
     /\ columns = ev.columnsBefore
     /\ groups = ev.groupsBefore

\* the last addBlock call returned, and y is the position it was given
AddedInBounds == ev.unit.y >= GRID_OFFSET_Y /\ ev.unit.y < GRID_OFFSET_Y + GRID_HEIGHT

\* C12 as stated: a block added with y inside the board starts in its column and
\* one added with y outside starts free-falling, whatever its velocity.
C12_SpawnByPosition ==
  (ev.kind = "add" /\ ~ev.unit.threw) =>
     /\ blk[ev.unit.block].isInGrid <=> AddedInBounds
     /\ ColumnEntries(ev.unit.block) = (IF AddedInBounds THEN 1 ELSE 0)

\* C12 amended: a block added with y inside the board and velocity 0 starts in
\* its column; any other block that is added starts free-falling, in no column.
C12_SpawnAtRest ==
  (ev.kind = "add" /\ ~ev.unit.threw) =>
     /\ blk[ev.unit.block].isInGrid <=> (AddedInBounds /\ ev.unit.velocity = 0)
     /\ ColumnEntries(ev.unit.block) = (IF AddedInBounds /\ ev.unit.velocity = 0 THEN 1 ELSE 0)
     /\ GroupsOf(ev.unit.block) = 0
     /\ blk[ev.unit.block].velocityY = ev.unit.velocity
     /\ blocks = Append(ev.blocksBefore, ev.unit.block)

\* a block has just been added inside the board with a downward velocity, and is falling
C12_Witness ==
  /\ ev.kind = "add"
  /\ ~ev.unit.threw
  /\ AddedInBounds
  /\ ev.unit.velocity > 0
  /\ ~blk[ev.unit.block].isInGrid
  /\ \E b \in Range(blocks) : blk[b].isInGrid

\* the (column, rounded y, color) of the blocks of a board, as a multiset
UnitTuple(w, b) == <<w.blk[b].column, RoundDiv(w.blk[b].y, PS), w.blk[b].color>>

UnitCount(w, t) == Cardinality({i \in 1..Len(w.blocks) : UnitTuple(w, w.blocks[i]) = t})

UnitTuples(w) == {UnitTuple(w, w.blocks[i]) : i \in 1..Len(w.blocks)}

\* the member indices of the groups of a board
Memberships(w) ==
  {{IndexOf(w.blocks, b) : b \in Range(w.grp[w.groups[i]].blocks) \cap Range(w.blocks)} : i \in 1..Len(w.groups)}

RoundTrip == loadGameState(World, serialize(World))

\* C9: loading the serialized board gives the same multiset of (column, rounded
\* y, color) and the same groups: as many, with the same sets of member indices.
C9_RoundTrip ==
  started =>
    /\ UnitTuples(RoundTrip) = UnitTuples(World)
    /\ \A t \in UnitTuples(World) : UnitCount(RoundTrip, t) = UnitCount(World, t)
    /\ Len(RoundTrip.groups) = Len(groups)
    /\ Memberships(RoundTrip) = Memberships(World)

\* a board with two groups, a Consumed block and a block between two pixels
C9_Witness ==
  /\ started
  /\ Len(groups) >= 2
  /\ \E b \in Range(blocks) : blk[b].color = GREY /\ blk[b].y % PS # 0
  /\ \E b \in Range(blocks) : blk[b].color # GREY /\ blk[b].velocityY = 0

\* C10: loading a malformed or partial saved game reports failure and leaves
\* the board exactly as it was.
C10_MalformedSave ==
  (ev.kind = "load" /\ ev.load.data \in Malformed) =>
     /\ ev.load.outcome = "rejected"
     /\ Board(World) = ev.load.before

\* the groups that held block b before the last step
GroupsBefore(b) == {g \in Range(ev.groupsBefore) : Contains(ev.grpBefore[g].blocks, b)}

\* the last step was a pointer move that exchanged two blocks
Swapped == ev.kind = "move" /\ ev.pointer.swapped

\* the two blocks were in one column, within 1.3 rows of each other
AdjacentBefore(a, b) ==
  /\ ev.blkBefore[a].column = ev.blkBefore[b].column
  /\ Abs(ev.blkBefore[a].y - ev.blkBefore[b].y) <= (ROW_HEIGHT * 13) \div 10

\* C13: a pointer move exchanges two blocks only if they were in the same
\* column, within 1.3 rows of each other, and either both at rest in the grid
\* and in no group, or both members of the same group; so never a group member
\* with a block of the grid, members of two groups, or a free-falling block.
C13_SwapAcceptance ==
  Swapped =>
    /\ AdjacentBefore(ev.pointer.selected, ev.pointer.target)
    /\ \/ /\ GroupsBefore(ev.pointer.selected) = {}
          /\ GroupsBefore(ev.pointer.target) = {}
          /\ ev.blkBefore[ev.pointer.selected].isInGrid
          /\ ev.blkBefore[ev.pointer.target].isInGrid
       \/ /\ GroupsBefore(ev.pointer.selected) # {}
          /\ GroupsBefore(ev.pointer.selected) = GroupsBefore(ev.pointer.target)

\* the blocks, columns and groups are what they were before the last step
BoardUnchanged ==
  /\ blk = ev.blkBefore
  /\ blocks = ev.blocksBefore
  /\ columns = ev.columnsBefore
  /\ groups = ev.groupsBefore
  /\ grp = ev.grpBefore

\* blocks a and b are members of two different groups
CrossGroup(a, b) ==
  /\ getBlockGroup(World, a) # NULL
  /\ getBlockGroup(World, b) # NULL
  /\ getBlockGroup(World, a) # getBlockGroup(World, b)

C14_WitnessCrossGroup ==
  /\ ev.kind = "move"
  /\ ~ev.pointer.swapped
  /\ ev.pointer.dy = -60 * PS
  /\ \E b \in Range(blocks) :
       /\ CrossGroup(ev.pointer.selected, b)
       /\ blk[b].column = blk[ev.pointer.selected].column
       /\ blk[b].y = blk[ev.pointer.selected].y - ROW_HEIGHT

\* a column list with blocks a and b exchanged
Exchanged(col, a, b) == [i \in 1..Len(col) |-> IF col[i] = a THEN b ELSE IF col[i] = b THEN a ELSE col[i]]

\* the two blocks exchanged their heights
SwapPositions(a, b) == blk[a].y = ev.blkBefore[b].y /\ blk[b].y = ev.blkBefore[a].y

\* the two blocks exchanged their places in the column lists
SwapSlots(a, b) == columns = [c \in 0..(COLUMNS - 1) |-> Exchanged(ev.columnsBefore[c], a, b)]

\* colour, grid flag and group membership of every block are what they were, and
\* every block but a and b is as it was
SwapKeeps(a, b) ==
  /\ blocks = ev.blocksBefore
  /\ groups = ev.groupsBefore
  /\ grp = ev.grpBefore
  /\ \A o \in Range(blocks) :
       /\ blk[o].color = ev.blkBefore[o].color
       /\ blk[o].isInGrid = ev.blkBefore[o].isInGrid
       /\ o \notin {a, b} => blk[o] = ev.blkBefore[o]

\* both blocks are at rest
SwapStops(a, b) == blk[a].velocityY = 0 /\ blk[b].velocityY = 0

\* C15: a pointer move that exchanges blocks a and b leaves a at b's former y and
\* b at a's former y, exchanges their places in the column lists, leaves the
\* colours, the grid flags and the group memberships as they were, leaves every
\* other block unchanged, and leaves both blocks with velocity zero.
C15_SwapEffect ==
  Swapped =>
    /\ SwapPositions(ev.pointer.selected, ev.pointer.target)
    /\ SwapSlots(ev.pointer.selected, ev.pointer.target)
    /\ SwapKeeps(ev.pointer.selected, ev.pointer.target)
    /\ SwapStops(ev.pointer.selected, ev.pointer.target)

\* the blocks at rest in the grid in the cell (column, row) that have the color
\* and are not Consumed, on the board with block table bk
CellHas(bk, column, row, color) ==
  \E b \in Range(columns[column]) :
     bk[b].isInGrid /\ RowOf(bk[b].y) = row /\ bk[b].color = color /\ color # GREY

\* the cells with the color in a line from (column, row), the cell itself not
\* counted, in steps of (dc, dr)
RECURSIVE RunFrom(_, _, _, _, _, _)
RunFrom(bk, column, row, dc, dr, color) ==
  IF ~isValidColumn(column + dc) \/ row + dr < 0 \/ row + dr >= ROWS THEN 0
  ELSE IF CellHas(bk, column + dc, row + dr, color) THEN 1 + RunFrom(bk, column + dc, row + dr, dc, dr, color)
  ELSE 0

\* the color at the cell would lie in a horizontal or vertical run of three or more
CompletesRun(bk, column, row, color) ==
  \/ RunFrom(bk, column, row, -1, 0, color) + 1 + RunFrom(bk, column, row, 1, 0, color) >= 3
  \/ RunFrom(bk, column, row, 0, -1, color) + 1 + RunFrom(bk, column, row, 0, 1, color) >= 3

\* C16: for every block the ColorAssigner recolors in a tick, on the board as it
\* is right after that block got its color: if some playable color lies in no
\* horizontal and no vertical run of three or more at the block's cell, then
\* the color the block got lies in none either, counting left and right, above
\* and below.
C16_MatchAvoidingRecolor ==
  ev.kind = "tick" =>
    \A k \in 1..Len(ev.recolors) :
       LET bk == ev.recolors[k].blk
           b == ev.recolors[k].block
       IN (\E c \in Range(PLAYABLE_COLORS) : ~CompletesRun(bk, bk[b].column, RowOf(bk[b].y), c))
            => ~CompletesRun(bk, bk[b].column, RowOf(bk[b].y), bk[b].color)

\* the recolored block of record rec had RED blocks at rest in the grid on its
\* left and on its right
BetweenRed(rec) ==
  LET b == rec.blk[rec.block]
  IN /\ isValidColumn(b.column - 1)
     /\ isValidColumn(b.column + 1)
     /\ CellHas(rec.blk, b.column - 1, RowOf(b.y), "RED")
     /\ CellHas(rec.blk, b.column + 1, RowOf(b.y), "RED")

\* C17: when the ColorAssigner recolors a block that has RED blocks at rest in
\* the grid on both horizontal neighbours, the safe colors it computed do not
\* hold RED and the color it assigned is not RED, whatever the random draw.
C17_ScenarioC ==
  ev.kind = "tick" =>
    \A k \in 1..Len(ev.recolors) :
       BetweenRed(ev.recolors[k]) =>
         /\ ~Contains(ev.recolors[k].safeColors, "RED")
         /\ ev.recolors[k].blk[ev.recolors[k].block].color # "RED"

\* the block between two RED blocks, with a third RED two rows below it, was
\* recolored with the last of its four safe colors
C17_Witness ==
  /\ ev.kind = "tick"
  /\ \E k \in 1..Len(ev.recolors) :
       /\ BetweenRed(ev.recolors[k])
       /\ CellHas(ev.recolors[k].blk, ev.recolors[k].blk[ev.recolors[k].block].column,
                  RowOf(ev.recolors[k].blk[ev.recolors[k].block].y) + 2, "RED")
       /\ ev.recolors[k].safeColors = <<"YELLOW", "BLUE", "GREEN", "PURPLE">>
       /\ ev.recolors[k].blk[ev.recolors[k].block].color = "PURPLE"

\* the step is one frame
FrameStep == frame' = frame + 1

\* what a frame does to the countdown of column c
Countdown(c) ==
  /\ (c \notin columnsAtRisk /\ c \in columnsAtRisk') => loseConditionTimers'[c] = Frames(LOSE_DELAY)
  /\ (c \in columnsAtRisk /\ c \in columnsAtRisk' /\ loseConditionTimers[c] > 1 /\ ev'.gameOvers = 0)
       => loseConditionTimers'[c] = loseConditionTimers[c] - 1
  /\ loseConditionTimers[c] = 1 => ev'.gameOvers = 1

\* what a frame does to the game-over signal
SignalOnce ==
  /\ ev'.gameOvers <= 1
  /\ ev'.gameOvers = 1 <=> \E c \in 0..(COLUMNS - 1) : loseConditionTimers[c] = 1
  /\ ev'.gameOvers = 1 => ~isPaused /\ isPaused' /\ loseConditionTimers' = NoTimers
  /\ isPaused => ev'.gameOvers = 0 /\ isPaused'

\* C18: a column that becomes at risk gets one countdown of 5000 ms, which goes
\* down by one frame in every frame in which the column stays at risk and is
\* not started again; when a countdown runs out the game-over signal fires once
\* in that frame, pauses the game and removes every countdown, and it never
\* fires in a later frame.
C18_OverHeightOnce == [][FrameStep => SignalOnce /\ \A c \in 0..(COLUMNS - 1) : Countdown(c)]_vars

\* the game is over in a frame where the countdown of column 0 ran out, 125
\* frames after the column became at risk
C18_Witness ==
  /\ ev.kind = "tick"
  /\ ev.gameOvers = 1
  /\ isPaused
  /\ 0 \in columnsAtRisk
  /\ frame >= Frames(LOSE_DELAY)

\* block b has velocity zero and is neither at rest in the grid nor in a group
Orphaned(b) == blk[b].velocityY = 0 /\ ~blk[b].isInGrid /\ GroupsOf(b) = 0

\* C19: at the end of every frame in which the game is not paused, no live block
\* has velocity zero while being neither in the grid nor in a group, and every
\* block the safety net found in that state falls at 300 px/s, outside the grid
\* and outside every group.
C19_SelfHealing ==
  (ev.kind = "tick" /\ ~isPaused) =>
    /\ \A b \in Range(blocks) : ~Orphaned(b)
    /\ \A i \in 1..Len(ev.orphans) :
         /\ blk[ev.orphans[i]].velocityY = ORPHAN_VELOCITY
         /\ ORPHAN_VELOCITY > 0
         /\ ~blk[ev.orphans[i]].isInGrid
         /\ GroupsOf(ev.orphans[i]) = 0

\* the safety net found a block in a frame
C19_Witness == ev.kind = "tick" /\ ~isPaused /\ Len(ev.orphans) > 0 /\ Contains(blocks, ev.orphans[1])

\* the board as checkAndProcessMatches left it in the last frame
AfterMatchPass ==
  [World EXCEPT !.blk = ev.match.blkAfter, !.columns = ev.match.columnsAfter,
                !.grp = ev.match.grpAfter, !.groups = ev.match.groupsAfter]

\* C20: in every frame that ran the match pass, detectMatches on the board as
\* checkAndProcessMatches left it returns no block; none of the blocks just
\* consumed is reported again.
C20_MatchIdempotence ==
  (ev.kind = "tick" /\ ev.match.blkAfter # <<>>) => detectMatches(AfterMatchPass) = <<>>

\* the match pass consumed blocks in the last frame
C20_Witness ==
  /\ ev.kind = "tick"
  /\ Len(ev.match.matched) >= 3
  /\ \A i \in 1..Len(ev.match.matched) : ev.match.blkAfter[ev.match.matched[i]].color = GREY
  /\ detectMatches(AfterMatchPass) = <<>>

\* C21: the launch velocity is upward (negative) for every match size of 3 or
\* more and its magnitude grows strictly with the match size, both as
\* getLaunchVelocity computes it and as Block.launch sets it; the group a match
\* at rest forms moves upward.
C21_LaunchMonotone ==
  /\ \A n \in 3..MaxMatchSize :
        /\ getLaunchVelocity(n, FALSE, 0) < 0
        /\ launchVelocity(n) < 0
        /\ Abs(getLaunchVelocity(n + 1, FALSE, 0)) > Abs(getLaunchVelocity(n, FALSE, 0))
        /\ Abs(launchVelocity(n + 1)) > Abs(launchVelocity(n))
  /\ FreshMatch /\ Len(ev.match.groupsAfter) > Len(ev.match.groupsBefore) =>
        LET m == ev.match
            g == m.groupsAfter[Len(m.groupsAfter)]
        IN /\ m.grpAfter[g].velocityY < 0
           /\ m.grpAfter[g].velocityY = launchVelocity(Len(m.matched))
           /\ Len(m.matched) >= 3

\* a run of five has just been launched, faster than a run of four would be
C21_Witness ==
  /\ FreshMatch
  /\ Len(ev.match.matched) = 5
  /\ Len(ev.match.groupsAfter) = Len(ev.match.groupsBefore) + 1
  /\ ev.match.grpAfter[ev.match.groupsAfter[Len(ev.match.groupsAfter)]].velocityY = -1500

\* C22: for every match checkMatchesInGroup finds in a live group with boost
\* count k, of n blocks: the matched blocks are Consumed and still members of
\* the group, the group's velocity has changed by exactly -300 * n * (1 + 2^k),
\* the boost count is k + 1, the list of live groups is the same and every
\* live group has the members it had.
C22_InGroupBoost ==
  ev.kind = "tick" =>
    \A i \in 1..Len(ev.boosts) :
       LET r == ev.boosts[i]
           n == Len(r.matched)
           k == r.grpBefore[r.group].boostCount
       IN /\ n >= 3
          /\ \A j \in 1..n : /\ r.blkAfter[r.matched[j]].color = GREY
                             /\ Contains(r.grpAfter[r.group].blocks, r.matched[j])
          /\ r.grpAfter[r.group].velocityY = r.grpBefore[r.group].velocityY - 300 * n * (1 + 2 ^ k)
          /\ r.grpAfter[r.group].boostCount = k + 1
          /\ r.groupsAfter = r.groupsBefore
          /\ \A j \in 1..Len(r.groupsBefore) : r.grpAfter[r.groupsBefore[j]].blocks = r.grpBefore[r.groupsBefore[j]].blocks

\* three members of a group that had been boosted once have matched: the group
\* gained -2700 and its boost count is 2
C22_Witness ==
  /\ ev.kind = "tick"
  /\ Len(ev.boosts) > 0
  /\ Len(ev.boosts[1].matched) = 3
  /\ ev.boosts[1].grpBefore[ev.boosts[1].group].boostCount = 1
  /\ ev.boosts[1].grpAfter[ev.boosts[1].group].boostCount = 2
  /\ ev.boosts[1].grpAfter[ev.boosts[1].group].velocityY = ev.boosts[1].grpBefore[ev.boosts[1].group].velocityY - 2700

\* the record of the disband loop for block b of disband d, or none
Landing(d, b) == {d.landed[i] : i \in {j \in 1..Len(d.landed) : d.landed[j].block = b}}

\* C23: at the end of a tick in which a group disbanded, the group is not live;
\* every member is live or was destroyed in the tick; a live member whose
\* collision check in the disband loop reported a collision is at rest in the
\* grid: stored in the rest column, at the rest y, with velocity 0; every
\* other live member is outside the grid and every live group and has a
\* velocity other than 0.
C23_DisbandOutcome ==
  ev.kind = "tick" =>
    \A k \in 1..Len(ev.disbands) :
       LET d == ev.disbands[k]
       IN /\ ~Contains(groups, d.group)
          /\ \A i \in 1..Len(d.members) :
                LET b == d.members[i]
                IN /\ Contains(blocks, b) \/ \E j \in 1..Len(ev.removals) : ev.removals[j].block = b
                   /\ Contains(blocks, b) /\ Landing(d, b) # {} =>
                        /\ blk[b].isInGrid
                        /\ blk[b].velocityY = 0
                        /\ GroupsOf(b) = 0
                        /\ \A l \in Landing(d, b) :
                              /\ blk[b].column = l.restColumn
                              /\ blk[b].y = l.restY
                              /\ Contains(columns[l.restColumn], b)
                   /\ Contains(blocks, b) /\ Landing(d, b) = {} =>
                        /\ ~blk[b].isInGrid
                        /\ blk[b].velocityY # 0
                        /\ GroupsOf(b) = 0
                        /\ ColumnEntries(b) = 0

\* C24: at the end of every tick, every block the ColorAssigner recolored in the
\* tick was, when it got its color, at rest in the grid (velocity 0, isInGrid,
\* stored in its column, member of no live group) with no timer left; and every
\* live Consumed block that is moving has no pending recovery timer.
C24_RecoveryAtRest ==
  ev.kind = "tick" /\ ~isPaused =>
    /\ \A k \in 1..Len(ev.recolors) :
          LET b == ev.recolors[k].block
              bk == ev.recolors[k].blk
          IN /\ bk[b].color # GREY
             /\ bk[b].velocityY = 0
             /\ bk[b].isInGrid
             /\ bk[b].greyRecoveryTimer = 0
             /\ Contains(blocks, b) => GroupsOf(b) = 0 /\ ColumnEntries(b) > 0
    /\ \A i \in 1..Len(blocks) :
          blk[blocks[i]].color = GREY /\ blk[blocks[i]].velocityY # 0 => blk[blocks[i]].greyRecoveryTimer = 0

\* block b was at rest in the grid before the tick
Resident(b) ==
  /\ ev.blkBefore[b].isInGrid
  /\ ev.blkBefore[b].velocityY = 0
  /\ isValidColumn(ev.blkBefore[b].column)
  /\ Contains(ev.columnsBefore[ev.blkBefore[b].column], b)

\* the cell (column, row) held a resident block of the color before the tick
CellBefore(column, row, color) ==
  /\ color # GREY
  /\ \E b \in Range(ev.blocksBefore) :
        /\ Resident(b)
        /\ ev.blkBefore[b].column = column
        /\ RowOf(ev.blkBefore[b].y) = row
        /\ ev.blkBefore[b].color = color

\* three cells in a line from (column, row) hold the color
Window(column, row, dc, dr, color) == \A k \in 0..2 : CellBefore(column + k * dc, row + k * dr, color)

\* block b lies in a horizontal or vertical run of three or more
InRun(b) ==
  /\ Resident(b)
  /\ \E k \in 0..2 :
        \/ Window(ev.blkBefore[b].column - k, RowOf(ev.blkBefore[b].y), 1, 0, ev.blkBefore[b].color)
        \/ Window(ev.blkBefore[b].column, RowOf(ev.blkBefore[b].y) - k, 0, 1, ev.blkBefore[b].color)

\* C25: in every tick that runs the at-rest match pass, the blocks the pass
\* matches are exactly the blocks at rest in the grid that lie in a horizontal
\* or vertical line of three or more adjacent cells of one color other than
\* grey, each block once; no matched block was Consumed before the pass.
C25_MatchDetection ==
  ev.kind = "tick" /\ ev.match.ran =>
    /\ Range(ev.match.matched) = {b \in Range(ev.blocksBefore) : InRun(b)}
    /\ Len(ev.match.matched) = Cardinality(Range(ev.match.matched))
    /\ \A i \in 1..Len(ev.match.matched) : ev.blkBefore[ev.match.matched[i]].color # GREY

\* a row and a column of three RED blocks that share a block have matched: five blocks
C25_Witness ==
  /\ ev.kind = "tick"
  /\ ev.match.ran
  /\ Len(ev.match.matched) = 5
  /\ \E b \in Range(ev.match.matched) :
        /\ Window(ev.blkBefore[b].column, RowOf(ev.blkBefore[b].y), 1, 0, ev.blkBefore[b].color)
        /\ Window(ev.blkBefore[b].column, RowOf(ev.blkBefore[b].y) - 2, 0, 1, ev.blkBefore[b].color)

\* a tick ran the match pass over five blocks at rest of which two pairs of one
\* color are separated by one cell, and matched nothing
C25_WitnessBroken ==
  /\ ev.kind = "tick"
  /\ ev.match.ran
  /\ ev.match.matched = <<>>
  /\ \E b \in Range(ev.blocksBefore) :
        /\ Resident(b)
        /\ CellBefore(ev.blkBefore[b].column + 1, RowOf(ev.blkBefore[b].y), ev.blkBefore[b].color)
        /\ ~CellBefore(ev.blkBefore[b].column + 2, RowOf(ev.blkBefore[b].y), ev.blkBefore[b].color)
        /\ CellBefore(ev.blkBefore[b].column + 3, RowOf(ev.blkBefore[b].y), ev.blkBefore[b].color)

\* the first live group that held block b before the tick, or NULL
GroupBefore(b) ==
  LET hit == {i \in 1..Len(ev.groupsBefore) : Contains(ev.grpBefore[ev.groupsBefore[i]].blocks, b)}
  IN IF hit = {} THEN NULL ELSE ev.groupsBefore[CHOOSE i \in hit : \A j \in hit : i <= j]

\* three cells in a line from (column, row) held resident blocks of the color,
\* each of them in group g (NULL: in no group)
PureWindow(column, row, dc, dr, color, g) ==
  /\ color # GREY
  /\ \A k \in 0..2 : \E b \in Range(ev.blocksBefore) :
        /\ Resident(b)
        /\ ev.blkBefore[b].column = column + k * dc
        /\ RowOf(ev.blkBefore[b].y) = row + k * dr
        /\ ev.blkBefore[b].color = color
        /\ GroupBefore(b) = g

\* three cells in a line hold resident blocks of one color that are not all of
\* one group, or all of none
MixedWindow(column, row, dc, dr, color) ==
  /\ Window(column, row, dc, dr, color)
  /\ \A g \in {NULL} \cup Range(ev.groupsBefore) : ~PureWindow(column, row, dc, dr, color, g)

\* C26: every block the at-rest match pass matches lies in a line of three
\* cells of blocks of its color that are all in no group or all in its group:
\* aligned blocks of one color of which one is in a group and another is not,
\* or in another group, form no run; and every block the pass over a group
\* matches is a member of that group and of no other live group.
C26_RunMembership ==
  ev.kind = "tick" =>
    /\ \A i \in 1..Len(ev.match.matched) :
          LET b == ev.match.matched[i]
          IN \E k \in 0..2 :
                \/ PureWindow(ev.blkBefore[b].column - k, RowOf(ev.blkBefore[b].y), 1, 0, ev.blkBefore[b].color, GroupBefore(b))
                \/ PureWindow(ev.blkBefore[b].column, RowOf(ev.blkBefore[b].y) - k, 0, 1, ev.blkBefore[b].color, GroupBefore(b))
    /\ \A i \in 1..Len(ev.boosts) : \A j \in 1..Len(ev.boosts[i].matched) :
          \A g \in Range(ev.boosts[i].groupsBefore) :
             Contains(ev.boosts[i].grpBefore[g].blocks, ev.boosts[i].matched[j]) <=> g = ev.boosts[i].group

\* the match pass ran over three RED blocks in a line, one in no group and two
\* in a group, and matched nothing
C26_Witness ==
  /\ ev.kind = "tick"
  /\ ev.match.ran
  /\ ev.match.matched = <<>>
  /\ \E b \in Range(ev.blocksBefore) :
        /\ Resident(b)
        /\ \/ MixedWindow(ev.blkBefore[b].column, RowOf(ev.blkBefore[b].y), 0, 1, ev.blkBefore[b].color)
           \/ MixedWindow(ev.blkBefore[b].column, RowOf(ev.blkBefore[b].y), 1, 0, ev.blkBefore[b].color)

\* C27: for every group whose disband check ran in the tick: its count of
\* steps with downward velocity is 0 after a step with upward velocity, one
\* more after a step with downward velocity once it has moved upward, and
\* unchanged otherwise; while it has moved upward and the count is below 10 the
\* group does not disband, whether or not a member collides; otherwise it
\* disbands in this tick exactly if a member collides.
C27_GracePeriod ==
  ev.kind = "tick" =>
    \A i \in 1..Len(ev.checks) :
       LET c == ev.checks[i]
           window == c.checked.wasMovingUpward /\ c.checked.framesMovingDownward < 10
       IN /\ c.updated.framesMovingDownward =
                IF c.updated.velocityY < 0 THEN 0
                ELSE IF c.updated.velocityY > 0 /\ c.before.wasMovingUpward THEN c.before.framesMovingDownward + 1
                ELSE c.before.framesMovingDownward
          /\ c.updated.wasMovingUpward = (c.before.wasMovingUpward \/ c.updated.velocityY < 0)
          /\ window => ~c.disbanded /\ ~Contains(ev.disbanded, c.group)
          /\ ~window => (c.disbanded <=> c.collided)
          /\ c.disbanded => Contains(ev.disbanded, c.group) /\ ~Contains(groups, c.group)

\* a member of a group that moves downward for fewer than 10 steps collides and
\* the group stays together
C27_Witness ==
  /\ ev.kind = "tick"
  /\ \E i \in 1..Len(ev.checks) :
        /\ ev.checks[i].collided
        /\ ev.checks[i].checked.velocityY > 0
        /\ ev.checks[i].checked.wasMovingUpward
        /\ ev.checks[i].checked.framesMovingDownward \in 1..9
        /\ Contains(groups, ev.checks[i].group)

\* the group disbands in the step that counts 10
C27_WitnessElapsed ==
  /\ ev.kind = "tick"
  /\ \E i \in 1..Len(ev.checks) :
        /\ ev.checks[i].collided
        /\ ev.checks[i].checked.wasMovingUpward
        /\ ev.checks[i].checked.framesMovingDownward = 10
        /\ ev.checks[i].before.framesMovingDownward = 9
        /\ ~Contains(groups, ev.checks[i].group)

\* the gravity one step adds to the velocity of a group of n blocks, in px/s
StepGravity(n) == (150 + 75 * n) \div FrameRate

\* C28: after the integration step of every group checked in the tick, the
\* stored velocity is the velocity before plus the gravity of the step, capped
\* at 70 downward and not capped upward, and every member has moved by the
\* stored velocity, but by no more than 700 px/s upward.
C28_VelocityClamps ==
  ev.kind = "tick" =>
    \A i \in 1..Len(ev.checks) :
       LET c == ev.checks[i]
           v == c.before.velocityY + StepGravity(Len(c.before.blocks))
       IN /\ c.updated.velocityY <= 70
          /\ c.updated.velocityY = (IF v > 70 THEN 70 ELSE v)
          /\ \A dy \in c.moved : dy >= -700 /\ dy = (IF c.updated.velocityY < -700 THEN -700 ELSE c.updated.velocityY)

\* a group boosted to a stored velocity beyond -700 px/s has moved by 700 px/s
C28_Witness ==
  /\ ev.kind = "tick"
  /\ \E i \in 1..Len(ev.checks) :
        /\ ev.checks[i].updated.velocityY < -700
        /\ ev.checks[i].before.boostCount > 0
        /\ ev.checks[i].moved = {-700}

\* a group falling at 70 px/s keeps that velocity through the step
C28_WitnessDescent ==
  /\ ev.kind = "tick"
  /\ \E i \in 1..Len(ev.checks) :
        /\ ev.checks[i].before.velocityY = 70
        /\ ev.checks[i].updated.velocityY = 70
        /\ ev.checks[i].moved = {70}

\* block b was a member of live group g before the tick and is one after it
Stays(g, b) == Contains(ev.grpBefore[g].blocks, b) /\ Contains(groups, g) /\ Contains(grp[g].blocks, b)

\* C29: in the integration step of every group checked in the tick all members
\* move by one and the same delta and carry the velocity of the group, which
\* has gained the gravity 150 + 75 * (number of members) unless capped; and
\* over the whole tick two blocks that stay members of one group keep their
\* offset in y.
C29_RigidBody ==
  ev.kind = "tick" =>
    /\ \A i \in 1..Len(ev.checks) :
          LET c == ev.checks[i]
          IN /\ Cardinality(c.moved) = 1
             /\ c.velocities = {c.updated.velocityY}
             /\ c.updated.velocityY < 70 =>
                  c.updated.velocityY - c.before.velocityY = StepGravity(Len(c.before.blocks))
    /\ \A j \in 1..Len(ev.groupsBefore) : \A a, b \in Range(ev.grpBefore[ev.groupsBefore[j]].blocks) :
          Stays(ev.groupsBefore[j], a) /\ Stays(ev.groupsBefore[j], b) =>
             blk[a].y - blk[b].y = ev.blkBefore[a].y - ev.blkBefore[b].y

\* a group of four blocks has gained 450 / 25 px/s in a step and its members, 80 px
\* apart before the tick, are 80 px apart after it
C29_Witness ==
  /\ ev.kind = "tick"
  /\ \E i \in 1..Len(ev.checks) :
        /\ Len(ev.checks[i].before.blocks) = 4
        /\ ev.checks[i].updated.velocityY - ev.checks[i].before.velocityY = 18
        /\ \E a, b \in Range(ev.checks[i].before.blocks) :
              /\ Stays(ev.checks[i].group, a) /\ Stays(ev.checks[i].group, b)
              /\ ev.blkBefore[a].y - ev.blkBefore[b].y = ROW_HEIGHT
              /\ blk[a].y - blk[b].y = ROW_HEIGHT
              /\ blk[a].y # ev.blkBefore[a].y

\* the blocks of S and the resident blocks one row height, within 1 px, above one of them
Above(S) ==
  S \cup {b \in Range(ev.blocksBefore) :
            /\ Resident(b)
            /\ \E x \in S : /\ ev.blkBefore[x].column = ev.blkBefore[b].column
                            /\ Abs(ev.blkBefore[x].y - ev.blkBefore[b].y - ROW_HEIGHT) <= PS}

RECURSIVE Upward(_, _)
Upward(S, n) == IF n = 0 THEN S ELSE Upward(Above(S), n - 1)

\* the matched blocks and everything stacked on them without a gap
LaunchSet == Upward(Range(ev.match.matched), ROWS)

\* C30: when the at-rest match pass matches blocks of no group, the blocks it
\* launches (sets moving upward as members of the new group) are exactly the matched
\* blocks and the blocks stacked on them, each one row height above a launched
\* block of its column; every other block at rest in the grid is after the
\* pass in its column as before, with the same y, color and velocity 0.
C30_LaunchSet ==
  ev.kind = "tick" /\ ev.match.ran /\ ev.match.matched # <<>> /\ ev.match.existing = NULL =>
    LET m == ev.match
    IN /\ Range(m.launched) = LaunchSet
       /\ Len(m.launched) = Cardinality(LaunchSet)
       /\ \A b \in LaunchSet :
             /\ ~m.blkAfter[b].isInGrid
             /\ m.blkAfter[b].velocityY < 0
             /\ Contains(m.grpAfter[m.groupsAfter[Len(m.groupsAfter)]].blocks, b)
       /\ \A b \in Range(ev.blocksBefore) \ LaunchSet :
             Resident(b) =>
               /\ m.blkAfter[b].isInGrid
               /\ m.blkAfter[b].column = ev.blkBefore[b].column
               /\ m.blkAfter[b].y = ev.blkBefore[b].y
               /\ m.blkAfter[b].color = ev.blkBefore[b].color
               /\ m.blkAfter[b].velocityY = 0
               /\ Contains(m.columnsAfter[ev.blkBefore[b].column], b)
               /\ \A g \in Range(m.groupsAfter) \ Range(ev.groupsBefore) : ~Contains(m.grpAfter[g].blocks, b)

\* a match launched a block resting on it and left in place a block under it
\* and a block of its column one empty cell above it
C30_Witness ==
  /\ ev.kind = "tick" /\ ev.match.ran /\ ev.match.existing = NULL
  /\ \E x \in Range(ev.match.matched) :
        /\ \E b \in LaunchSet \ Range(ev.match.matched) : ev.blkBefore[b].column = ev.blkBefore[x].column
        /\ \E b \in Range(ev.blocksBefore) \ LaunchSet :
              /\ Resident(b) /\ ev.match.blkAfter[b].isInGrid
              /\ ev.blkBefore[b].column = ev.blkBefore[x].column
              /\ ev.blkBefore[b].y = ev.blkBefore[x].y + ROW_HEIGHT
  /\ \E x \in Range(ev.match.matched) :
        \E b \in Range(ev.blocksBefore) \ LaunchSet :
           /\ Resident(b) /\ ev.match.blkAfter[b].isInGrid
           /\ ev.blkBefore[b].column = ev.blkBefore[x].column
           /\ ev.blkBefore[b].y = ev.blkBefore[x].y - 2 * ROW_HEIGHT

\* the y of the bottom edge of the board, in position units
FloorY == (GRID_OFFSET_Y_PX + ROWS * ROW_HEIGHT_PX) * PS

\* the y of the blocks at rest of the column of query q that are below its block
RestBelow(q) ==
  {q.column[i].y : i \in {j \in 1..Len(q.column) : q.column[j].velocityY = 0 /\ q.column[j].y > q.unit.y}}

\* the y of the nearest of them
NearestBelow(q) == CHOOSE y \in RestBelow(q) : \A z \in RestBelow(q) : y <= z

\* the bottom edge of the block of query q is at or below the floor
OnFloor(q) == q.unit.y + (ROW_HEIGHT_PX * PS) \div 2 >= FloorY

\* it is at or below the top edge of the nearest block at rest below it
OnBlock(q) == RestBelow(q) # {} /\ q.unit.y + (ROW_HEIGHT_PX * PS) \div 2 >= NearestBelow(q) - (ROW_HEIGHT_PX * PS) \div 2

\* C31: every collision query of a tick, for a block of a valid column, reports
\* a collision exactly if the block moves downward and its bottom edge is at or
\* below the floor or the top edge of the nearest block at rest below it in its
\* column; the rest position is flush on the floor, or one row height above
\* that block; a query that reports no collision leaves the block where it was.
C31_CollisionQuery ==
  ev.kind = "tick" =>
    \A i \in 1..Len(ev.queries) :
       LET q == ev.queries[i]
       IN isValidColumn(q.unit.column) =>
            /\ q.result.collided <=> (q.unit.velocityY > 0 /\ (OnFloor(q) \/ OnBlock(q)))
            /\ q.result.collided => q.result.restColumn = q.unit.column
            /\ q.result.collided /\ OnFloor(q) => q.result.restY = FloorY - (ROW_HEIGHT_PX * PS) \div 2
            /\ q.result.collided /\ ~OnFloor(q) => q.result.restY = NearestBelow(q) - ROW_HEIGHT_PX * PS
            /\ ~q.result.collided => q.result.restY = -1

\* a falling block has reached the top edge of a block at rest and the query
\* gives the position one row above it
C31_Witness ==
  /\ ev.kind = "tick"
  /\ \E i \in 1..Len(ev.queries) :
        /\ ev.queries[i].result.collided
        /\ ~OnFloor(ev.queries[i])
        /\ OnBlock(ev.queries[i])
        /\ ev.queries[i].result.restY = NearestBelow(ev.queries[i]) - ROW_HEIGHT_PX * PS

\* a falling block has reached the floor
C31_WitnessFloor ==
  /\ ev.kind = "tick"
  /\ \E i \in 1..Len(ev.queries) : ev.queries[i].result.collided /\ OnFloor(ev.queries[i])

\* a block that is in no column and in no live group and moves downward
FreeFalling(b) == ColumnEntries(b) = 0 /\ GroupsOf(b) = 0 /\ blk[b].velocityY > 0

\* the members of live group g in the column of block b, other than b
SameColumn(g, b) == {m \in Range(grp[g].blocks) : m # b /\ blk[m].column = blk[b].column}

RecoveryHorizon == Frames(SAFETY_CHECK_DELAY) + Frames(GREY_RECOVERY_DELAY) + 1

\* block b is a Consumed block at rest in its column
ConsumedAtRest(b) ==
  /\ started
  /\ b \in DOMAIN blk
  /\ Contains(blocks, b)
  /\ blk[b].color = GREY
  /\ blk[b].velocityY = 0
  /\ blk[b].isInGrid

\* C33: while the frames follow one another, a Consumed block at rest in its
\* column does not stay so forever: it takes one of the playable colors or
\* leaves its place (the blocks it is seen at rest with enough frames left for
\* a round of the safety check and the recovery delay).
C33_RecoveryLiveness ==
  \A b \in 1..MaxGreyUnits :
     (ConsumedAtRest(b) /\ ~isPaused /\ frame + RecoveryHorizon <= MaxGreyFrames) ~> ~ConsumedAtRest(b)

\* a Consumed block that landed has taken a playable color where it lies
C33_Witness ==
  /\ ev.kind = "tick"
  /\ \E i \in 1..Len(ev.recolored) :
        LET b == ev.recolored[i]
        IN /\ ev.blkBefore[b].color = GREY
           /\ ev.blkBefore[b].velocityY = 0
           /\ ev.blkBefore[b].isInGrid
           /\ ev.blkBefore[b].greyRecoveryTimer = 1
           /\ Contains(blocks, b)
           /\ blk[b].isInGrid
           /\ blk[b].velocityY = 0
           /\ blk[b].y = ev.blkBefore[b].y
           /\ \E k \in 1..Len(PLAYABLE_COLORS) : blk[b].color = PLAYABLE_COLORS[k]
           /\ frame > Frames(GREY_RECOVERY_DELAY)

\* group g is in the live list
Live(g) == started /\ Contains(groups, g)

\* C34: while the frames follow one another, no group stays in the live list
\* forever: it is removed above the top, emptied, absorbed by a merge or
\* disbanded on a collision.
C34_GroupTermination == \A g \in 1..MaxFlightGroups : Live(g) ~> ~Live(g)

\* a group that was coming down has disbanded on a collision, more than a
\* recovery delay into the run, and is no longer live
C34_Witness ==
  /\ ev.kind = "tick"
  /\ \E i \in 1..Len(ev.disbanded) :
        /\ Contains(ev.groupsBefore, ev.disbanded[i])
        /\ ev.grpBefore[ev.disbanded[i]].velocityY > 0
        /\ ~Contains(groups, ev.disbanded[i])
  /\ frame > Frames(GREY_RECOVERY_DELAY)

\* a group has been absorbed by a merge and is no longer live
C34_WitnessMerge ==
  /\ ev.kind = "tick"
  /\ Len(ev.merges) > 0
  /\ \E g \in Range(ev.groupsBefore) : ~Contains(groups, g)

\* a group has left the board through the top
C34_WitnessTop ==
  /\ ev.kind = "tick"
  /\ \E i \in 1..Len(ev.groupsToRemove) :
        /\ Contains(ev.groupsBefore, ev.groupsToRemove[i])
        /\ ev.grpBefore[ev.groupsToRemove[i]].velocityY < 0
        /\ ~Contains(ev.disbanded, ev.groupsToRemove[i])
        /\ Len(ev.merges) = 0
        /\ ~Contains(groups, ev.groupsToRemove[i])

\* the blocks that are grid-resident in column c
GridResident(c) == {b \in Range(blocks) : blk[b].isInGrid /\ blk[b].column = c}

\* the topmost grid-resident block of column c is at or above the top line of the grid
OverHeight(c) ==
  \E b \in GridResident(c) :
     /\ \A x \in GridResident(c) : blk[b].y <= blk[x].y
     /\ blk[b].y <= GRID_OFFSET_Y_PX * PS

\* the lose countdown of column c is pending
Pending(c) == loseConditionTimers[c] > 0

\* C35: at the end of every frame in which the game is not paused, the lose
\* countdown of a column is pending exactly if the topmost grid-resident block
\* of the column is at or above the top line of the grid; a countdown that was
\* pending for a column no longer over height is removed and the game-over
\* signal has not fired; a column over height that had no countdown has one of
\* the full delay.
C35_CountdownTracksRisk ==
  (ev.kind = "tick" /\ ~isPaused) =>
     \A c \in 0..(COLUMNS - 1) :
        /\ Pending(c) <=> OverHeight(c)
        /\ (ev.timersBefore[c] > 0 /\ ~OverHeight(c)) => (loseConditionTimers[c] = 0 /\ ev.gameOvers = 0)
        /\ (ev.timersBefore[c] = 0 /\ OverHeight(c)) => loseConditionTimers[c] = Frames(LOSE_DELAY)

\* the countdown of column 0 was running and has been removed, the column
\* being no longer over height, and the game goes on
C35_Witness ==
  /\ ev.kind = "tick"
  /\ ~isPaused
  /\ ev.timersBefore[0] > 1
  /\ ev.timersBefore[0] < Frames(LOSE_DELAY)
  /\ ~OverHeight(0)
  /\ loseConditionTimers[0] = 0
  /\ ev.gameOvers = 0

\* column 0 is over height again and has a countdown of the full delay
C35_WitnessFresh ==
  /\ ev.kind = "tick"
  /\ ~isPaused
  /\ ev.timersBefore[0] = 0
  /\ OverHeight(0)
  /\ loseConditionTimers[0] = Frames(LOSE_DELAY)
  /\ frame > 1

\* the number of entries of block b in the column lists of board w
EntriesIn(w, b) ==
  Cardinality(UNION {{<<c, i>> : i \in {j \in 1..Len(w.columns[c]) : w.columns[c][j] = b}} : c \in 0..(COLUMNS - 1)})

\* the number of live groups of board w that block b is a member of
GroupsIn(w, b) == Cardinality({i \in 1..Len(w.groups) : Contains(w.grp[w.groups[i]].blocks, b)})

\* on the loaded board r no block is in a column and in a group, and the i-th
\* block is grid-resident if the i-th block of the saved board w was
MembershipKept(w, r) ==
  /\ Len(r.blocks) = Len(w.blocks)
  /\ \A i \in 1..Len(r.blocks) : EntriesIn(r, r.blocks[i]) = 0 \/ GroupsIn(r, r.blocks[i]) = 0
  /\ \A i \in 1..Len(w.blocks) :
        (w.blk[w.blocks[i]].isInGrid /\ EntriesIn(w, w.blocks[i]) = 1 /\ GroupsIn(w, w.blocks[i]) = 0)
          => (r.blk[r.blocks[i]].isInGrid /\ EntriesIn(r, r.blocks[i]) = 1)

\* C36: on the board that loading the serialized board gives, no block is both
\* in a column and a member of a group, and every block that was grid-resident
\* on the saved board is grid-resident.
C36_MembershipAfterLoad == started => MembershipKept(World, RoundTrip)

\* the blocks stored in the column lists cols
Stored(cols) == UNION {Range(cols[c]) : c \in 0..(COLUMNS - 1)}

\* C37: in every state, every block stored in a column list is a live block
\* with velocity 0 and isInGrid set, every live block with isInGrid set is
\* stored in the list of its own column, and a block that a frame finds and
\* leaves stored in a column has the velocity it had.
C37_GridResidentAtRest ==
  started =>
    /\ \A b \in Stored(columns) : Contains(blocks, b) /\ blk[b].velocityY = 0 /\ blk[b].isInGrid
    /\ \A b \in Range(blocks) :
          blk[b].isInGrid => isValidColumn(blk[b].column) /\ Contains(columns[blk[b].column], b)
    /\ ev.kind = "tick" =>
          \A b \in Stored(columns) \cap Stored(ev.columnsBefore) : blk[b].velocityY = ev.blkBefore[b].velocityY


\* ---------------------------------------------------- DumpShapeGenerator
\* block counts that may be fractional are carried in tenths
TENTHS == 10

\* Math.floor of a count given in tenths
Floor(x) == x \div TENTHS

Min2(a, b) == IF a < b THEN a ELSE b

\* the most blocks a column other than the last selected one is given
COLUMN_CAP == 6

\* the fewest columns a shape uses when the target allows it
MIN_DUMP_COLUMNS == 4

\* the number of values of Math.floor(Math.random() * 6)
DUMP_COLUMN_SPREAD == 6

\* the most blocks generateRandomShape gives a column
MAX_RANDOM_HEIGHT == 4

\* the i-th value that Math.random() gives in one call, i from 0, for the random
\* source draws = <<first, step>>
Draw(draws, i) == draws[1] + i * draws[2]

NoHeights == [c \in 0..(COLUMNS - 1) |-> 0]

\* the loop that picks the columns: a random index of the columns left, which
\* is removed from them
RECURSIVE SelectColumns(_, _, _, _, _)
SelectColumns(allColumnIndices, selectedColumns, i, numColumnsWithBlocks, draws) ==
  IF i >= numColumnsWithBlocks THEN selectedColumns
  ELSE LET randomIndex == RandomIndex(Draw(draws, 1 + i), Len(allColumnIndices))
       IN SelectColumns(RemoveAt(allColumnIndices, randomIndex), Append(selectedColumns, allColumnIndices[randomIndex]),
                        i + 1, numColumnsWithBlocks, draws)

\* the forEach over the selected columns: the last one gets all remaining
\* blocks, every other one a random count from 1 to min(6, what leaves one
\* block for each later column)
RECURSIVE Distribute(_, _, _, _, _)
Distribute(shape, selectedColumns, index, remainingBlocks, draws) ==
  IF index >= Len(selectedColumns) THEN shape
  ELSE LET col == selectedColumns[index + 1]
           minForThisColumn == 1
           maxForThisColumn == Min2(COLUMN_CAP, remainingBlocks - (Len(selectedColumns) - index - 1))
           blocksForThisColumn ==
             (RandomIndex(Draw(draws, 1 + Len(selectedColumns) + index), maxForThisColumn - minForThisColumn + 1) - 1)
               + minForThisColumn
       IN IF index = Len(selectedColumns) - 1
          THEN Distribute([shape EXCEPT ![col] = remainingBlocks], selectedColumns, index + 1, remainingBlocks, draws)
          ELSE Distribute([shape EXCEPT ![col] = blocksForThisColumn], selectedColumns, index + 1,
                          remainingBlocks - blocksForThisColumn, draws)

\* DumpShapeGenerator.generateShapeWithTargetCount for a target in tenths
generateShapeWithTargetCount(targetCount, draws) ==
  LET actualTarget == Max2(1, Floor(targetCount))
      numColumnsWithBlocks == Min2((RandomIndex(Draw(draws, 0), DUMP_COLUMN_SPREAD) - 1) + MIN_DUMP_COLUMNS, actualTarget)
      allColumnIndices == [i \in 1..COLUMNS |-> i - 1]
      selectedColumns == SelectColumns(allColumnIndices, <<>>, 0, numColumnsWithBlocks, draws)
  IN Distribute(NoHeights, selectedColumns, 0, actualTarget, draws)

\* the heights that generateRandomShape assigns: 1 to 4 blocks for each selected column
RECURSIVE AssignHeights(_, _, _, _)
AssignHeights(shape, selectedColumns, index, draws) ==
  IF index >= Len(selectedColumns) THEN shape
  ELSE AssignHeights([shape EXCEPT ![selectedColumns[index + 1]] =
                        (RandomIndex(Draw(draws, 1 + Len(selectedColumns) + index), MAX_RANDOM_HEIGHT) - 1) + 1],
                     selectedColumns, index + 1, draws)

\* DumpShapeGenerator.generateRandomShape
generateRandomShape(draws) ==
  LET numColumnsWithBlocks == (RandomIndex(Draw(draws, 0), DUMP_COLUMN_SPREAD) - 1) + MIN_DUMP_COLUMNS
      allColumnIndices == [i \in 1..COLUMNS |-> i - 1]
      selectedColumns == SelectColumns(allColumnIndices, <<>>, 0, numColumnsWithBlocks, draws)
  IN AssignHeights(NoHeights, selectedColumns, 0, draws)

\* DumpShapeGenerator.getTotalBlocks
RECURSIVE SumHeights(_, _)
SumHeights(shape, col) == IF col >= COLUMNS THEN 0 ELSE shape[col] + SumHeights(shape, col + 1)

getTotalBlocks(shape) == SumHeights(shape, 0)

\* ------------------------------------------------------------ BlockSpawner
WARNING_DURATION == 3000

RESUME_DELAY == 3000

DUMP_INTERVAL == 30000

DUMP_BASE_Y_PX == -600

DUMP_VELOCITY == 800

\* the dumpAmountRamp of the quick-play level, values in tenths of a block
DUMP_AMOUNT_RAMP ==
  [initialValue |-> 20 * TENTHS, changePerInterval |-> 5 * TENTHS, intervalDuration |-> 60000,
   minValue |-> UNDEFINED, maxValue |-> 100 * TENTHS]

\* calculateRampedValue
calculateRampedValue(rampConfig, elapsedMs) ==
  LET intervalsPassed == elapsedMs \div rampConfig.intervalDuration
      value == rampConfig.initialValue + intervalsPassed * rampConfig.changePerInterval
  IN IF rampConfig.minValue # UNDEFINED /\ value < rampConfig.minValue THEN rampConfig.minValue
     ELSE IF rampConfig.maxValue # UNDEFINED /\ value > rampConfig.maxValue THEN rampConfig.maxValue
     ELSE value

\* the level configuration of quick-play as far as the spawner reads it
QuickPlayConfig == [spawnRate |-> SPAWN_RATE, dumpInterval |-> DUMP_INTERVAL, dumpAmountRamp |-> DUMP_AMOUNT_RAMP]

\* the level configuration that createGameElements hands to the spawner: the
\* spawn rate and the dump interval only
SpawnerConfig == [spawnRate |-> SPAWN_RATE, dumpInterval |-> DUMP_INTERVAL]

\* BlockSpawner.getRampedDumpAmount, elapsedMs after the game start: null
\* without a dumpAmountRamp
getRampedDumpAmount(levelConfig, elapsedMs) ==
  IF "dumpAmountRamp" \notin DOMAIN levelConfig THEN [isNull |-> TRUE, value |-> 0]
  ELSE [isNull |-> FALSE, value |-> calculateRampedValue(levelConfig.dumpAmountRamp, elapsedMs)]

\* BlockSpawner.start; the spawn rate and the dump interval are those of the
\* level configuration
start(s) ==
  IF s.spawnTimer # NoTimer THEN s
  ELSE [s EXCEPT !.spawnTimer = SpawnerConfig.spawnRate, !.spawnPaused = FALSE,
                 !.dumpTimer = IF @ = NoTimer THEN SpawnerConfig.dumpInterval ELSE @]

\* BlockSpawner.stop
stop(s) == [s EXCEPT !.spawnTimer = NoTimer, !.spawnPaused = FALSE, !.dumpTimer = NoTimer, !.warningTimer = NoTimer]

\* BlockSpawner.isDumpActive
isDumpActive(s) == s.warningTimer # NoTimer \/ s.pendingDumpShape # NoShape

\* BlockSpawner.scheduleDump and triggerWarning
scheduleDump(s, shape) ==
  IF s.warningTimer # NoTimer THEN s
  ELSE [s EXCEPT !.pendingDumpShape = shape,
                 !.spawnPaused = IF s.spawnTimer # NoTimer THEN TRUE ELSE @,
                 !.warningTimer = WARNING_DURATION]

\* BlockSpawner.executeDump: height blocks per column, from baseY downward
RECURSIVE DumpLoop(_, _, _, _)
DumpLoop(w, shape, col, row) ==
  IF Evaluated(w) /\ col >= COLUMNS THEN w
  ELSE IF row >= shape[col] THEN DumpLoop(w, shape, col + 1, 0)
       ELSE DumpLoop(AddBlock(w, col, (DUMP_BASE_Y_PX + row * ROW_HEIGHT_PX) * PS, GREY, DUMP_VELOCITY), shape, col, row + 1)

executeDump(w, shape) == DumpLoop(w, shape, 0, 0)

\* BlockSpawner.enableLFGMode
enableLFGMode(s) ==
  [s EXCEPT !.isLFGMode = TRUE, !.sinceLFGSpawn = 0,
            !.spawnPaused = IF s.spawnTimer # NoTimer THEN TRUE ELSE @]

\* BlockSpawner.disableLFGMode
disableLFGMode(s) ==
  [s EXCEPT !.isLFGMode = FALSE,
            !.spawnPaused = IF s.spawnTimer # NoTimer /\ ~isDumpActive(s) THEN FALSE ELSE @]

\* LevelScene.handleLFGDown
handleLFGDown(paused, s) ==
  IF paused \/ s.isLFGActive THEN s
  ELSE IF isDumpActive(s) THEN s
  ELSE enableLFGMode([s EXCEPT !.isLFGActive = TRUE, !.lfgElapsed = 0])

\* LevelScene.handleLFGUp
handleLFGUp(s) ==
  IF ~s.isLFGActive THEN s
  ELSE disableLFGMode([s EXCEPT !.isLFGActive = FALSE])

RAMP_DURATION == 1500

LFG_TARGET_RATE == 200

\* rampDuration times the rate that update hands to updateLFGSpawning,
\* elapsedTime after LFG mode was started
ScaledLFGRate(elapsedTime) ==
  SPAWN_RATE * RAMP_DURATION + (LFG_TARGET_RATE - SPAWN_RATE) * Min2(elapsedTime, RAMP_DURATION)

\* whether updateLFGSpawning spawns a block
LFGSpawnDue(s) == s.isLFGMode /\ s.sinceLFGSpawn * RAMP_DURATION >= ScaledLFGRate(s.lfgElapsed)


\* -------------------------------------------- the spawner, dumps and LFG mode
\* the scene with the spawner started (LevelScene.create), on an empty board
InitSpawner ==
  /\ started = TRUE
  /\ isPaused = FALSE
  /\ blk = <<>>
  /\ blocks = <<>>
  /\ columns = NoColumns
  /\ grp = <<>>
  /\ groups = <<>>
  /\ nextGroup = 1
  /\ blocksRemoved = 0
  /\ blocksReadyToRecover = <<>>
  /\ columnsAtRisk = {}
  /\ loseConditionTimers = NoTimers
  /\ spawnTimer = 0
  /\ greyBlockSafetyTimer = 0
  /\ frame = 0
  /\ spawned = 0
  /\ added = 0
  /\ selectedBlock = 0
  /\ moved = 0
  /\ ev = NoEvents
  /\ spawner = start(NoSpawner)

\* the time between two states of the clock, in ms; every delay is a multiple
TIME_STEP == 1000

\* the ms after the game start at which a dump timer event reads the ramp
DumpElapsed == {30000}

\* the random sources of the dump shapes
DumpDraws == {<<0, 0>>, <<3, 1>>}

\* the spawn timer's callback is due
SpawnDue(s) == s.spawnTimer = 0 /\ ~s.spawnPaused

\* the LFG part of LevelScene.update has something to do
UpdateDue == ~isPaused /\ spawner.isLFGActive /\ (isDumpActive(spawner) \/ LFGSpawnDue(spawner))

\* the scene's clock advances by one step when no timer event is due and update,
\* which runs every frame, has nothing left to do; a paused timer event keeps
\* its time, and the times since the LFG start and the last LFG spawn are
\* followed up to the values that the rate depends on
TimePasses ==
  /\ started
  /\ ~UpdateDue
  /\ ~SpawnDue(spawner)
  /\ spawner.dumpTimer # 0
  /\ spawner.warningTimer # 0
  /\ 0 \notin spawner.resumeCalls
  /\ spawner' = [spawner EXCEPT
                   !.spawnTimer = IF @ > 0 /\ ~spawner.spawnPaused THEN @ - TIME_STEP ELSE @,
                   !.dumpTimer = IF @ > 0 THEN @ - TIME_STEP ELSE @,
                   !.warningTimer = IF @ > 0 THEN @ - TIME_STEP ELSE @,
                   !.resumeCalls = {t - TIME_STEP : t \in @},
                   !.sinceLFGSpawn = IF spawner.isLFGMode THEN Min2(@ + TIME_STEP, SPAWN_RATE) ELSE @,
                   !.lfgElapsed = IF spawner.isLFGActive THEN Min2(@ + TIME_STEP, RAMP_DURATION) ELSE @]
  /\ UNCHANGED <<started, isPaused, blk, blocks, columns, grp, groups, nextGroup, blocksRemoved,
                 blocksReadyToRecover, columnsAtRisk, loseConditionTimers, spawnTimer,
                 greyBlockSafetyTimer, frame, spawned, added, selectedBlock, moved, ev>>

\* BlockSpawner.onSpawnTick: the looping spawn timer fires and a block is spawned
OnSpawnTick ==
  /\ started
  /\ SpawnDue(spawner)
  /\ \E choice \in (IF spawned < MaxSpawns THEN SpawnChoices ELSE {NoChoice}) :
       Becomes(IF spawned < MaxSpawns THEN spawnBlock(World, choice) ELSE World)
  /\ spawner' = [spawner EXCEPT !.spawnTimer = SpawnerConfig.spawnRate]
  /\ UNCHANGED <<started, frame, added, selectedBlock, moved, ev>>

\* BlockSpawner.onDumpTick: the looping dump timer fires, a shape is generated
\* (for the ramped amount if the configuration has one) and the dump is scheduled
OnDumpTick ==
  /\ started
  /\ spawner.dumpTimer = 0
  /\ spawner.dumps < MaxDumps
  /\ \E elapsedMs \in DumpElapsed, draws \in DumpDraws :
       LET dumpAmount == getRampedDumpAmount(SpawnerConfig, elapsedMs)
           dumpShape == IF ~dumpAmount.isNull THEN generateShapeWithTargetCount(dumpAmount.value, draws)
                        ELSE generateRandomShape(draws)
       IN spawner' = [scheduleDump(spawner, dumpShape) EXCEPT
                        !.dumpTimer = SpawnerConfig.dumpInterval, !.dumps = @ + 1, !.draws = draws]
  /\ UNCHANGED <<started, isPaused, blk, blocks, columns, grp, groups, nextGroup, blocksRemoved,
                 blocksReadyToRecover, columnsAtRisk, loseConditionTimers, spawnTimer,
                 greyBlockSafetyTimer, frame, spawned, added, selectedBlock, moved, ev>>

\* the callback of the warning timer: the pending dump is executed and the
\* resume of the spawn timer is scheduled
WarningCallback ==
  /\ started
  /\ spawner.warningTimer = 0
  /\ Becomes(IF spawner.pendingDumpShape # NoShape THEN executeDump(World, spawner.pendingDumpShape) ELSE World)
  /\ spawner' = [spawner EXCEPT !.pendingDumpShape = NoShape, !.warningTimer = NoTimer,
                                !.resumeCalls = @ \cup {RESUME_DELAY}]
  /\ UNCHANGED <<started, frame, added, selectedBlock, moved, ev>>

\* the delayed call that the warning callback schedules: the spawn timer, if
\* there is one, is no longer paused
ResumeCallback ==
  /\ started
  /\ 0 \in spawner.resumeCalls
  /\ spawner' = [spawner EXCEPT !.resumeCalls = @ \ {0},
                                !.spawnPaused = IF spawner.spawnTimer # NoTimer THEN FALSE ELSE @]
  /\ UNCHANGED <<started, isPaused, blk, blocks, columns, grp, groups, nextGroup, blocksRemoved,
                 blocksReadyToRecover, columnsAtRisk, loseConditionTimers, spawnTimer,
                 greyBlockSafetyTimer, frame, spawned, added, selectedBlock, moved, ev>>

\* the LFG button is pressed
LFGDown ==
  /\ started
  /\ spawner' = handleLFGDown(isPaused, spawner)
  /\ UNCHANGED <<started, isPaused, blk, blocks, columns, grp, groups, nextGroup, blocksRemoved,
                 blocksReadyToRecover, columnsAtRisk, loseConditionTimers, spawnTimer,
                 greyBlockSafetyTimer, frame, spawned, added, selectedBlock, moved, ev>>

\* the LFG button is released
LFGUp ==
  /\ started
  /\ spawner' = handleLFGUp(spawner)
  /\ UNCHANGED <<started, isPaused, blk, blocks, columns, grp, groups, nextGroup, blocksRemoved,
                 blocksReadyToRecover, columnsAtRisk, loseConditionTimers, spawnTimer,
                 greyBlockSafetyTimer, frame, spawned, added, selectedBlock, moved, ev>>

\* the LFG part of LevelScene.update while LFG mode is active: LFG mode ends if
\* a dump is active, else updateLFGSpawning spawns a block when the time since
\* the last one has reached the rate
UpdateLFG ==
  /\ started
  /\ ~isPaused
  /\ spawner.isLFGActive
  /\ IF isDumpActive(spawner)
     THEN /\ spawner' = handleLFGUp(spawner)
          /\ UNCHANGED <<isPaused, blk, blocks, columns, grp, groups, nextGroup, blocksRemoved,
                         blocksReadyToRecover, columnsAtRisk, loseConditionTimers, spawnTimer,
                         greyBlockSafetyTimer, spawned>>
     ELSE /\ LFGSpawnDue(spawner)
          /\ \E choice \in (IF spawned < MaxSpawns THEN SpawnChoices ELSE {NoChoice}) :
               Becomes(IF spawned < MaxSpawns THEN spawnBlock(World, choice) ELSE World)
          /\ spawner' = [spawner EXCEPT !.sinceLFGSpawn = 0]
  /\ UNCHANGED <<started, frame, added, selectedBlock, moved, ev>>

\* LevelScene.pauseGame
PauseGame ==
  /\ started
  /\ ~isPaused
  /\ isPaused' = TRUE
  /\ spawner' = stop(IF spawner.isLFGActive THEN handleLFGUp(spawner) ELSE spawner)
  /\ UNCHANGED <<started, blk, blocks, columns, grp, groups, nextGroup, blocksRemoved,
                 blocksReadyToRecover, columnsAtRisk, loseConditionTimers, spawnTimer,
                 greyBlockSafetyTimer, frame, spawned, added, selectedBlock, moved, ev>>

\* LevelScene.resumeGame
ResumeGame ==
  /\ started
  /\ isPaused
  /\ isPaused' = FALSE
  /\ spawner' = start(spawner)
  /\ UNCHANGED <<started, blk, blocks, columns, grp, groups, nextGroup, blocksRemoved,
                 blocksReadyToRecover, columnsAtRisk, loseConditionTimers, spawnTimer,
                 greyBlockSafetyTimer, frame, spawned, added, selectedBlock, moved, ev>>

NextSpawner ==
  \/ TimePasses \/ OnSpawnTick \/ OnDumpTick \/ WarningCallback \/ ResumeCallback
  \/ LFGDown \/ LFGUp \/ UpdateLFG \/ PauseGame \/ ResumeGame

SpecSpawner == InitSpawner /\ [][NextSpawner]_vars


\* --------------------------------------------------- LFG and regular spawning
\* the regular spawn timer is running: it exists and is not paused
RegularSpawning(s) == s.spawnTimer # NoTimer /\ ~s.spawnPaused

\* C38: whenever LFG mode is active the regular spawn timer is paused, whatever
\* the order of LFG press and release, dump warning, dump execution and the
\* delayed resume call after a dump: regular spawning and LFG spawning are never
\* both running.
C38_LFGExcludesSpawning == (spawner.isLFGMode \/ spawner.isLFGActive) => ~RegularSpawning(spawner)


\* ------------------------------------------------------ the dump activity flag
\* C39: isDumpActive() is true exactly when a dump warning is pending, that is
\* when a warning timer exists; so it is false after stop() has cancelled a
\* pending warning and after a dump has executed, and LFG mode can be
\* activated again.
C39_DumpActivityFlag == started => (isDumpActive(spawner) <=> spawner.warningTimer # NoTimer)


\* ------------------------------------------------------- the shapes of dumps
\* the ms after the game start at which the ramp of quick-play is read
RampTimes == {0, 60000, 420000}

\* target counts in tenths: below 1, fractional, up to what nine columns of six
\* hold, and amounts of the ramp of quick-play (20, 25 and 55 blocks)
ShapeTargets ==
  {-10, 0, 5, 10, 15, 40, 90, 540} \cup {getRampedDumpAmount(QuickPlayConfig, t).value : t \in RampTimes}

\* the random sources of the shapes: first value and step up to MaxDraw
ShapeDraws == (0..MaxDraw) \X (0..MaxDraw)

\* a spawner that is about to generate a shape for a target with a random source
InitShape ==
  /\ started = TRUE
  /\ isPaused = FALSE
  /\ blk = <<>>
  /\ blocks = <<>>
  /\ columns = NoColumns
  /\ grp = <<>>
  /\ groups = <<>>
  /\ nextGroup = 1
  /\ blocksRemoved = 0
  /\ blocksReadyToRecover = <<>>
  /\ columnsAtRisk = {}
  /\ loseConditionTimers = NoTimers
  /\ spawnTimer = 0
  /\ greyBlockSafetyTimer = 0
  /\ frame = 0
  /\ spawned = 0
  /\ added = 0
  /\ selectedBlock = 0
  /\ moved = 0
  /\ ev = NoEvents
  /\ \E targetCount \in ShapeTargets, draws \in ShapeDraws :
       spawner = [NoSpawner EXCEPT !.targetCount = targetCount, !.draws = draws]

\* DumpShapeGenerator.generateShapeWithTargetCount is called and the shape kept
\* as the pending dump
GenerateShape ==
  /\ spawner.dumps = 0
  /\ spawner.pendingDumpShape = NoShape
  /\ spawner' = [spawner EXCEPT !.pendingDumpShape = generateShapeWithTargetCount(spawner.targetCount, spawner.draws)]
  /\ UNCHANGED <<started, isPaused, blk, blocks, columns, grp, groups, nextGroup, blocksRemoved,
                 blocksReadyToRecover, columnsAtRisk, loseConditionTimers, spawnTimer,
                 greyBlockSafetyTimer, frame, spawned, added, selectedBlock, moved, ev>>

\* BlockSpawner.executeDump with the pending shape
ExecuteShape ==
  /\ spawner.pendingDumpShape # NoShape
  /\ Becomes(executeDump(World, spawner.pendingDumpShape))
  /\ spawner' = [spawner EXCEPT !.pendingDumpShape = NoShape, !.dumps = @ + 1]
  /\ UNCHANGED <<started, frame, added, selectedBlock, moved, ev>>

NextShape == GenerateShape \/ ExecuteShape

SpecShape == InitShape /\ [][NextShape]_vars

\* C40: for every target count and every random choice, the shape that
\* generateShapeWithTargetCount returns has 9 column heights, they sum to
\* max(1, floor(target)), and no column height exceeds 6.
C40_ShapeCap ==
  spawner.pendingDumpShape # NoShape =>
    /\ DOMAIN spawner.pendingDumpShape = 0..(COLUMNS - 1)
    /\ getTotalBlocks(spawner.pendingDumpShape) = Max2(1, Floor(spawner.targetCount))
    /\ \A c \in 0..(COLUMNS - 1) : spawner.pendingDumpShape[c] <= COLUMN_CAP

====
